---- MODULE Spec2Model ----
(***************************************************************************)
(* A model of the standardization and derivation layer of the PSP data     *)
(* pipeline: the raw record reader (scripts/utils_io.py), the entity       *)
(* standardizer (scripts/standardize_poslanci.py), the ballot standardizer *)
(* (scripts/standardize_votes.py) and the snapshot derivation batch        *)
(* (scripts/analyses/run_all.py and the five run_* derivations).           *)
(*                                                                         *)
(* Text is modelled as a sequence of one-character strings wherever the    *)
(* code looks inside it (splitting, padding, prefixes); identifiers that   *)
(* the code only compares are plain strings.  A namespaced identifier      *)
(* f"psp:vote-event:{hid}" is the pair <<"psp:vote-event:", hid>>.         *)
(***************************************************************************)
EXTENDS Integers, Sequences, FiniteSets, TLC

VARIABLES
    \* ---- ballot standardizer (standardize_hl_votes) ----
    pc,                 \* position in standardize_hl_votes
    hlas_rows,          \* the rows of hl2025s.unl, as read (id and result code)
    zmatecne_ids,       \* the void set
    vote_events,        \* list of VoteEvent records
    motions,            \* list of Motion records
    valid_vote_ids,     \* ids of the vote events kept
    poslanec_to_osoba,  \* member id -> person id (a function on the mapped members)
    batch_size,         \* flush threshold of the columnar writer
    batch,              \* records accumulated since the last flush
    csv_rows,           \* rows written to votes.csv
    parquet_rows,       \* rows flushed to votes.parquet
    ballots_read,       \* the ballot rows streamed so far (input history)
    written,            \* output files created or rewritten by this run
    \* ---- snapshot derivation (run_all and the five run_* scripts) ----
    d_pc,               \* the derivation to run next, or "done" / "failed" / "idle"
    d_batch,            \* TRUE: run_all runs the five in order; FALSE: one script alone
    orgs_csv,           \* rows of work/standard/organizations.csv
    raw_organy,         \* rows of work/raw/poslanci/organy.unl (id_organ, zkratka)
    pos_lens,           \* the field counts found among the rows of poslanec.unl
    snap_written,       \* snapshot output files written by this run
    d_err,              \* the error that ended the run, "none" if none
    d_term,             \* the object written to current_term.json, if written
    \* ---- raw record reader (read_unl, read_unl_iter) ----
    r_mode,             \* "read_unl" or "read_unl_iter"
    r_pc,               \* "call", "done", "raised" or "idle"
    r_content,          \* the decoded file content
    r_expected,         \* expected_ncols: <<>> for None, <<n>> for n
    r_rest,             \* what the streaming reader has not read yet
    r_rows,             \* the rows returned (read_unl) or yielded so far (read_unl_iter)
    \* ---- entity standardizer (standardize) ----
    e_pc,               \* "running", "done", "failed" or "idle"
    e_i,                \* position in the body of standardize
    e_raw,              \* raw file -> the field count of each of its rows
    e_read,             \* raw files read and column-validated so far
    e_written,          \* canonical tables written so far
    e_err,              \* the raw file whose column count was wrong, "none" if none
    \* ---- _parse_psp_date ----
    date_pc,            \* "call", "done" or "idle"
    date_d,             \* the argument d, a sequence of characters
    date_ret,           \* the returned value
    \* ---- _parse_psp_gender ----
    gender_pc,          \* "call", "done" or "idle"
    gender_g,           \* the argument g, a sequence of characters
    gender_ret,         \* the returned value
    \* ---- one call of a pure helper ----
    call_fn,            \* the helper called, "idle" if none
    call_pc,            \* "call", "done" or "idle"
    call_arg,           \* its argument
    call_ret,           \* what it returned
    \* ---- roster derivations (run_current_members, run_all_members) ----
    ro_pc,              \* the roster to derive next, or "done" / "idle"
    ro_persons,         \* rows of persons.csv (id, name as read back)
    ro_memberships,     \* rows of memberships.csv, as read back
    ro_pos,             \* rows of poslanec.unl for the current term
    ro_term_since,      \* founding_date of the term organization, as read back
    ro_current,         \* the records of current_members.json
    ro_all,             \* the records of all_members.json
    ro_written,         \* roster files written
    ro_err,             \* "none", or the error that ended a derivation
    \* ---- groups views (run_current_groups, run_all_groups) ----
    g_pc,               \* the view to derive next, or "done" / "idle"
    g_orgs,             \* rows of organizations.csv under some term
    g_current,          \* the records of current_groups.json
    g_all,              \* the records of all_groups.json
    g_written,          \* groups files written
    \* ---- run_all run twice over the same inputs ----
    rr_pc,              \* the script to run next, or "done" / "failed" / "idle"
    rr_run,             \* 1 in the first run, 2 in the second
    rr_orgs,            \* rows of organizations.csv under some term
    rr_roster,          \* persons.csv, memberships.csv, rows of poslanec.unl
    rr_term_since,      \* founding_date of the term organization, as read back
    rr_prior,           \* the output files before the first run
    rr_files,           \* the output files: name -> content
    rr_first,           \* the output files as the first run left them
    rr_written,         \* files written by the run under way
    \* ---- the pipeline run ----
    pipe_pc,            \* the stage to run next, or "done" / "failed" / "idle"
    pipe_ds,            \* the dataset the publish loops have come to
    pipe_bucket,        \* whether B2_BUCKET is set
    pipe_fault,         \* the call that raises in this run, if any
    pipe_log,           \* the calls that returned, in order
    pipe_uploaded,      \* remote keys written by upload_file
    pipe_pointers       \* datasets whose latest.json was written

votesVars == <<pc, hlas_rows, zmatecne_ids, vote_events, motions, valid_vote_ids,
               poslanec_to_osoba, batch_size, batch, csv_rows, parquet_rows,
               ballots_read, written>>

deriveVars == <<d_pc, d_batch, orgs_csv, raw_organy, pos_lens, snap_written, d_err,
                d_term>>

readerVars == <<r_mode, r_pc, r_content, r_expected, r_rest, r_rows>>

entityVars == <<e_pc, e_i, e_raw, e_read, e_written, e_err>>

dateVars == <<date_pc, date_d, date_ret>>

genderVars == <<gender_pc, gender_g, gender_ret>>

parserVars == <<entityVars, dateVars, genderVars>>

callVars == <<call_fn, call_pc, call_arg, call_ret>>

rosterVars == <<ro_pc, ro_persons, ro_memberships, ro_pos, ro_term_since,
                ro_current, ro_all, ro_written, ro_err>>

\* the components after the parsers
groupsVars == <<g_pc, g_orgs, g_current, g_all, g_written>>

\* the components after the rosters
rerunVars == <<rr_pc, rr_run, rr_orgs, rr_roster, rr_term_since, rr_prior,
               rr_files, rr_first, rr_written>>

pipelineVars == <<pipe_pc, pipe_ds, pipe_bucket, pipe_fault, pipe_log,
                  pipe_uploaded, pipe_pointers>>

lateVars == <<groupsVars, rerunVars, pipelineVars>>

\* the components after the parsers
restVars == <<callVars, rosterVars, lateVars>>

vars == <<votesVars, deriveVars, readerVars, parserVars, restVars>>

----------------------------------------------------------------------------
(* Bounds and input alphabets *)

MaxEvents == 2      \* rows of the vote-event table hl2025s.unl
MaxBallots == 3     \* rows streamed from the ballot files hl2025h*.unl
MaxBatch == 2       \* largest flush threshold tried

IdVals == {"1", "2", "x"}           \* raw vote ids; "x" is not numeric
VoidVals == {"", "1", "2"}          \* first fields of zmatecne.unl rows
ResultCodes == {<<"A">>, <<"r">>, <<>>}   \* raw result codes (column 14)
HlasRows == [hid : IdVals, result_code : ResultCodes]
BallotIds == {"1", "2"}             \* vote ids referenced by ballot rows
Members == {"m1", "m2"}             \* id_poslanec values
OsobaVals == {"", "p1"}             \* id_osoba values of poslanec.unl
BallotCodes == {<<"A">>}            \* option codes of the streamed rows
BadRow == [bad |-> TRUE]            \* a ballot row whose column count is not 4

MaxOrgs == 2        \* rows of organizations.csv
MaxRaw == 2         \* rows of organy.unl
MaxLen == 4         \* characters of a file given to the raw record reader
MaxRows == 2        \* rows of a raw file of the entity standardizer
MaxTokens == 5      \* pieces a raw date is put together from
MaxGender == 2      \* characters of a raw gender value
MaxCode == 2        \* characters of a raw option code
MaxMemberships == 2 \* rows of memberships.csv
MaxGroupOrgs == 2   \* rows of organizations.csv under some term
MaxRerunOrgs == 1   \* the same, when the batch is run twice

SeqsUpTo(S, n) == UNION {[1..k -> S] : k \in 0..n}

\* poslanec.unl as read: at most one row per member id
PoslanecTables == UNION {[D -> OsobaVals] : D \in SUBSET Members}

BallotRows == [id_poslanec : Members, hid : BallotIds, code : BallotCodes]

----------------------------------------------------------------------------
(* Text helpers: the str methods the code calls *)

\* an optional value: None, or a value that is there
Absent == <<>>
Some(v) == <<v>>

\* the letter Z with caron, capital and small, each one character
ZCaron == "Z-caron"
zCaron == "z-caron"

\* str.upper, character by character
UpperChar(c) ==
    CASE c = "a" -> "A"
      [] c = "b" -> "B"
      [] c = "c" -> "C"
      [] c = "f" -> "F"
      [] c = "k" -> "K"
      [] c = "m" -> "M"
      [] c = "n" -> "N"
      [] c = "r" -> "R"
      [] c = "w" -> "W"
      [] c = "z" -> "Z"
      [] c = zCaron -> ZCaron
      [] OTHER -> c

upper(s) == [i \in 1..Len(s) |-> UpperChar(s[i])]

\* str.strip
RECURSIVE strip(_)
strip(s) ==
    IF s = <<>> THEN s
    ELSE IF Head(s) = " " THEN strip(Tail(s))
    ELSE IF s[Len(s)] = " " THEN strip(SubSeq(s, 1, Len(s) - 1))
    ELSE s

----------------------------------------------------------------------------
(* Pure helpers of standardize_votes.py *)

\* the variant that knows one letter per option only
_map_option_OneLetterEach(code) ==
    LET c == upper(strip(code))
    IN CASE c = <<"A">> -> "yes"
         [] c = <<"B">> -> "no"
         [] c = <<"C">> -> "abstain"
         [] c = <<"F">> -> "not voting"
         [] c = <<"@">> -> "absent"
         [] c = <<"M">> -> "excused"
         [] c = <<"W">> -> "not member"
         [] OTHER -> "unknown"

_map_option(code) ==
    LET c == upper(strip(code))
    IN CASE c = <<"A">> -> "yes"
         [] c \in {<<"B">>, <<"N">>} -> "no"
         [] c \in {<<"C">>, <<"K">>} -> "abstain"
         [] c = <<"F">> -> "not voting"
         [] c = <<"@">> -> "absent"
         [] c = <<"M">> -> "excused"
         [] c = <<"W">> -> "not member"
         [] OTHER -> "unknown"

\* int(x["identifier"]): defined on the numeric ids only, raises otherwise
IsNumeric(hid) == hid \in {"1", "2"}
IntOf(hid) == IF hid = "1" THEN 1 ELSE 2

\* list.sort(key=...) is stable: insert each element after the last one
\* whose key is not greater
RECURSIVE InsertByKey(_, _)
InsertByKey(s, e) ==
    IF s = <<>> THEN <<e>>
    ELSE IF IntOf(s[Len(s)].identifier) <= IntOf(e.identifier)
         THEN Append(s, e)
         ELSE Append(InsertByKey(SubSeq(s, 1, Len(s) - 1), e), s[Len(s)])

\* the variant that leaves the list in input order
SortByIdentifier_InputOrder(s) == s

RECURSIVE SortByIdentifier(_)
SortByIdentifier(s) ==
    IF s = <<>> THEN <<>>
    ELSE InsertByKey(SortByIdentifier(SubSeq(s, 1, Len(s) - 1)), s[Len(s)])

\* lines 100-110: the result of the vote event and of the motion
ve_result(result_code) ==
    LET c == upper(strip(result_code))
    IN IF c = <<"A">> THEN Some("pass")
       ELSE IF c = <<"R">> THEN Some("fail")
       ELSE Absent

m_result(result_code) ==
    LET c == upper(strip(result_code))
    IN IF c = <<"A">> THEN Some("passed")
       ELSE IF c = <<"R">> THEN Some("failed")
       ELSE Absent

VoteEventOf(r) ==
    [id |-> <<"psp:vote-event:", r.hid>>, identifier |-> r.hid,
     motion_id |-> <<"psp:motion:", r.hid>>, result |-> ve_result(r.result_code)]

MotionOf(r) ==
    [id |-> <<"psp:motion:", r.hid>>, identifier |-> r.hid,
     result |-> m_result(r.result_code)]

\* Faulty variant of KeptIds: the void set is not consulted
KeptIds_NoVoidFilter(rows, void) == rows

\* the loop over hlas_rows (lines 87-157): void rows are skipped
RECURSIVE KeptIds(_, _)
KeptIds(rows, void) ==
    IF rows = <<>> THEN <<>>
    ELSE IF rows[1].hid \in void
         THEN KeptIds(Tail(rows), void)
         ELSE <<rows[1]>> \o KeptIds(Tail(rows), void)

VoteRecord(row, mapping) ==
    [vote_event_id |-> <<"psp:vote-event:", row.hid>>,
     voter_id |-> <<"psp:person:", mapping[row.id_poslanec]>>,
     option |-> _map_option(row.code)]

\* Faulty variant of Accepts: the vote id is not looked up
Accepts_AnyVoteId(row, valid, mapping) == row.id_poslanec \in DOMAIN mapping

\* the two filters of the ballot loop (lines 210-214)
Accepts(row, valid, mapping) ==
    /\ row.hid \in valid
    /\ row.id_poslanec \in DOMAIN mapping

\* line 224: the batch is flushed as soon as it holds batch_size records
FlushDue(b, size) == Len(b) >= size

\* Faulty variant of FinalFlush: the partial batch left by the loop is lost
FinalFlush_Dropped(flushed, b) == flushed

\* lines 228-229: what votes.parquet holds after the loop
FinalFlush(flushed, b) == IF b # <<>> THEN flushed \o b ELSE flushed

----------------------------------------------------------------------------
(* standardize_hl_votes, one action per step *)

VotesStart ==
    /\ pc = "read_hlas"
    /\ hlas_rows = <<>>
    /\ zmatecne_ids = {}
    /\ vote_events = <<>>
    /\ motions = <<>>
    /\ valid_vote_ids = {}
    /\ poslanec_to_osoba = <<>>
    /\ batch_size \in 1..MaxBatch
    /\ batch = <<>>
    /\ csv_rows = <<>>
    /\ parquet_rows = <<>>
    /\ ballots_read = <<>>
    /\ written = {}

\* lines 72-157: read hl2025s.unl (18 columns) and zmatecne.unl, build the lists
ReadEvents ==
    /\ pc = "read_hlas"
    /\ \E ok \in BOOLEAN, rows \in SeqsUpTo(HlasRows, MaxEvents), zm \in SUBSET VoidVals :
         IF ~ok
         THEN /\ pc' = "failed"
              /\ UNCHANGED <<hlas_rows, zmatecne_ids, vote_events, motions,
                             valid_vote_ids>>
         ELSE LET void == {r \in zm : r # ""}
                  kept == KeptIds(rows, void)
              IN /\ hlas_rows' = rows
                 /\ zmatecne_ids' = void
                 /\ vote_events' = [i \in 1..Len(kept) |-> VoteEventOf(kept[i])]
                 /\ motions' = [i \in 1..Len(kept) |-> MotionOf(kept[i])]
                 /\ valid_vote_ids' = {kept[i].hid : i \in 1..Len(kept)}
                 /\ pc' = "sort"
    /\ UNCHANGED <<poslanec_to_osoba, batch_size, batch, csv_rows, parquet_rows,
                   ballots_read, written>>
    /\ UNCHANGED <<deriveVars, readerVars, parserVars, restVars>>

\* lines 159-178: sort both lists by int(identifier), then write the four files
SortAndWriteEvents ==
    /\ pc = "sort"
    /\ IF \E i \in 1..Len(vote_events) : ~IsNumeric(vote_events[i].identifier)
       THEN /\ pc' = "failed"
            /\ UNCHANGED <<vote_events, motions, written>>
       ELSE /\ vote_events' = SortByIdentifier(vote_events)
            /\ motions' = SortByIdentifier(motions)
            /\ written' = written \cup {"vote_events.json", "motions.json",
                                        "vote_events.parquet", "motions.parquet"}
            /\ pc' = "read_poslanec"
    /\ UNCHANGED <<hlas_rows, zmatecne_ids, valid_vote_ids, poslanec_to_osoba, batch_size,
                   batch, csv_rows, parquet_rows, ballots_read>>
    /\ UNCHANGED <<deriveVars, readerVars, parserVars, restVars>>

\* lines 180-199: read poslanec.unl (16 columns), open both vote outputs
ReadPoslanec ==
    /\ pc = "read_poslanec"
    /\ \E ok \in BOOLEAN, t \in PoslanecTables :
         IF ~ok
         THEN /\ pc' = "failed"
              /\ UNCHANGED <<poslanec_to_osoba, written>>
         ELSE /\ poslanec_to_osoba' =
                    [m \in {k \in DOMAIN t : t[k] # ""} |-> t[m]]
              /\ written' = written \cup {"votes.parquet", "votes.csv"}
              /\ pc' = "stream"
    /\ UNCHANGED <<hlas_rows, zmatecne_ids, vote_events, motions, valid_vote_ids, batch_size,
                   batch, csv_rows, parquet_rows, ballots_read>>
    /\ UNCHANGED <<deriveVars, readerVars, parserVars, restVars>>

\* lines 204-226: one row of the streamed ballot files
ReadBallot ==
    /\ pc = "stream"
    /\ Len(ballots_read) < MaxBallots
    /\ \E row \in BallotRows \cup {BadRow} :
         IF row = BadRow
         THEN /\ pc' = "failed"
              /\ UNCHANGED <<batch, csv_rows, parquet_rows, ballots_read>>
         ELSE /\ ballots_read' = Append(ballots_read, row)
              /\ pc' = pc
              /\ IF Accepts(row, valid_vote_ids, poslanec_to_osoba)
                 THEN LET rec == VoteRecord(row, poslanec_to_osoba)
                          b == Append(batch, rec)
                      IN /\ csv_rows' = Append(csv_rows, rec)
                         /\ IF FlushDue(b, batch_size)
                            THEN /\ parquet_rows' = parquet_rows \o b
                                 /\ batch' = <<>>
                            ELSE /\ batch' = b
                                 /\ UNCHANGED parquet_rows
                 ELSE UNCHANGED <<batch, csv_rows, parquet_rows>>
    /\ UNCHANGED <<hlas_rows, zmatecne_ids, vote_events, motions, valid_vote_ids,
                   poslanec_to_osoba, batch_size, written>>
    /\ UNCHANGED <<deriveVars, readerVars, parserVars, restVars>>

\* lines 228-231: the streams are exhausted; flush the partial batch and close
EndBallots ==
    /\ pc = "stream"
    /\ parquet_rows' = FinalFlush(parquet_rows, batch)
    /\ batch' = batch
    /\ pc' = "done"
    /\ UNCHANGED <<hlas_rows, zmatecne_ids, vote_events, motions, valid_vote_ids,
                   poslanec_to_osoba, batch_size, csv_rows, ballots_read, written>>
    /\ UNCHANGED <<deriveVars, readerVars, parserVars, restVars>>

VotesNext ==
    \/ ReadEvents
    \/ SortAndWriteEvents
    \/ ReadPoslanec
    \/ ReadBallot
    \/ EndBallots

VotesIdle ==
    /\ pc = "idle"
    /\ hlas_rows = <<>>
    /\ zmatecne_ids = {}
    /\ vote_events = <<>>
    /\ motions = <<>>
    /\ valid_vote_ids = {}
    /\ poslanec_to_osoba = <<>>
    /\ batch_size = 1
    /\ batch = <<>>
    /\ csv_rows = <<>>
    /\ parquet_rows = <<>>
    /\ ballots_read = <<>>
    /\ written = {}

----------------------------------------------------------------------------
(* Snapshot derivation: scripts/analyses/run_all.py and the run_* scripts *)

NaN == "<NaN>"      \* what pandas.read_csv yields for an empty cell
Date == "2025-10-04"

\* pandas.read_csv: an empty cell is read back as NaN
ReadCsvCell(cell) == IF cell = "" THEN NaN ELSE cell

\* Python truth of a value: None and "" are false, NaN (a non-zero float) is true
Truthy(v) == v # ""

\* Series.isna()
IsNa(v) == v = NaN

LegislatureName == "Poslanecka snemovna"

\* str.contains("Poslanecká sněmovna", regex=False), on the names modelled
ContainsLegislature(name) == name = LegislatureName

NumericIds == <<"201", "202", "203", "204">>   \* id_organ of the i-th row

OrgCsvRows ==
    [name : {LegislatureName}, founding_date : {"", Date}, dissolution_date : {"", Date}]
    \cup [name : {"Senat"}, founding_date : {Date}, dissolution_date : {""}]

PSP10 == <<"P", "S", "P", "1", "0">>
Abbrs == {PSP10, <<"P", "S", "P">>, <<"P", "S", "1", "0">>}
RawOrganyRows == [id_organ : {"201", "202"}, abbr : Abbrs]
PosLens == {15, 16, 17}

Digits == {"0", "1", "2", "3", "4", "5", "6", "7", "8", "9"}

\* str.isdigit(), on the characters modelled
IsDigitStr(s) == Len(s) > 0 /\ \A i \in 1..Len(s) : s[i] \in Digits

\* abbr.startswith("PSP")
StartsWithPSP(a) == Len(a) >= 3 /\ SubSeq(a, 1, 3) = <<"P", "S", "P">>

\* Faulty variant of CurTermIdx: the dissolution date is not looked at
CurTermIdx_AnyDissolution(orgs) ==
    {i \in 1..Len(orgs) : ContainsLegislature(orgs[i].name)}

\* cur_terms: the rows whose name contains the legislature substring and whose
\* dissolution_date is NaN as read back
CurTermIdx(orgs) ==
    {i \in 1..Len(orgs) :
        /\ ContainsLegislature(orgs[i].name)
        /\ IsNa(ReadCsvCell(orgs[i].dissolution_date))}

\* cur_terms.iloc[0]
TermIdx(orgs) == CHOOSE i \in CurTermIdx(orgs) : \A j \in CurTermIdx(orgs) : i <= j

\* cur_terms.iloc[0]["founding_date"]
TermSince(orgs) == ReadCsvCell(orgs[TermIdx(orgs)].founding_date)

\* term_id.split(":")[-1]
TermNumericId(orgs) == NumericIds[TermIdx(orgs)]

\* DataFrame(pos_rows).shape[1]: the length of the longest row, 0 without rows
Shape1(lens) == IF lens = {} THEN 0 ELSE CHOOSE n \in lens : \A m \in lens : m <= n

\* Faulty variant of _term_number_from_raw_organy: a row with another
\* abbreviation is passed over instead of ending the search
RECURSIVE _term_number_from_raw_organy_SkipBad(_, _)
_term_number_from_raw_organy_SkipBad(rows, id) ==
    IF rows = <<>> THEN [err |-> "term_not_found"]
    ELSE LET abbr == rows[1].abbr
         IN IF rows[1].id_organ = id /\ StartsWithPSP(abbr)
                  /\ IsDigitStr(SubSeq(abbr, 4, Len(abbr)))
            THEN [err |-> "none", term_no |-> SubSeq(abbr, 4, Len(abbr))]
            ELSE _term_number_from_raw_organy_SkipBad(Tail(rows), id)

\* _term_number_from_raw_organy: the first row with the term's id decides
RECURSIVE _term_number_from_raw_organy(_, _)
_term_number_from_raw_organy(rows, id) ==
    IF rows = <<>> THEN [err |-> "term_not_found"]
    ELSE IF rows[1].id_organ # id
         THEN _term_number_from_raw_organy(Tail(rows), id)
         ELSE LET abbr == rows[1].abbr
              IN IF StartsWithPSP(abbr) /\ IsDigitStr(SubSeq(abbr, 4, Len(abbr)))
                 THEN [err |-> "none", term_no |-> SubSeq(abbr, 4, Len(abbr))]
                 ELSE [err |-> "abbr"]

\* run_current_members, lines 33-57: the error it raises before its writes
CurrentMembersErr(orgs, lens) ==
    IF Cardinality(CurTermIdx(orgs)) # 1 THEN "term_count"
    ELSE IF ~Truthy(TermSince(orgs)) THEN "founding"
    ELSE IF Shape1(lens) # 16 THEN "poslanec_cols"
    ELSE "none"

\* run_current_groups and run_all_groups, lines 14-20
GroupsErr(orgs) ==
    IF Cardinality(CurTermIdx(orgs)) # 1 THEN "term_count" ELSE "none"

\* run_current_term, lines 40-64; since.split fails on a float
CurrentTermErr(orgs, rows) ==
    IF Cardinality(CurTermIdx(orgs)) # 1 THEN "term_count"
    ELSE IF ~Truthy(TermSince(orgs)) THEN "founding"
    ELSE IF TermSince(orgs) = NaN THEN "attribute_error"
    ELSE _term_number_from_raw_organy(rows, TermNumericId(orgs)).err

\* run_all_members, lines 46-100
AllMembersErr(orgs, lens) ==
    IF Shape1(lens) # 16 THEN "poslanec_cols"
    ELSE IF Cardinality(CurTermIdx(orgs)) # 1 THEN "term_count"
    ELSE IF ~Truthy(TermSince(orgs)) THEN "founding"
    ELSE "none"

Scripts == <<"current_members", "current_groups", "current_term", "all_groups",
             "all_members">>

\* run_all, lines 11-16: the order of the five calls
NextScript(name) ==
    CASE name = "current_members" -> "current_groups"
      [] name = "current_groups" -> "current_term"
      [] name = "current_term" -> "all_groups"
      [] name = "all_groups" -> "all_members"
      [] name = "all_members" -> "done"

OutputsOf(name) ==
    CASE name = "current_members" -> {"current_members.csv", "current_members.json"}
      [] name = "current_groups" -> {"current_groups.json", "current_groups.csv"}
      [] name = "current_term" -> {"current_term.json"}
      [] name = "all_groups" -> {"all_groups.json", "all_groups.csv"}
      [] name = "all_members" -> {"all_members.json", "all_members.csv"}

DeriveIdle ==
    /\ d_pc = "idle"
    /\ d_batch = FALSE
    /\ orgs_csv = <<>>
    /\ raw_organy = <<>>
    /\ pos_lens = {}
    /\ snap_written = {}
    /\ d_err = "none"
    /\ d_term = Absent

\* run_all starts with run_current_members; each script can also run alone
DeriveStart ==
    /\ \/ d_batch = TRUE /\ d_pc = "current_members"
       \/ d_batch = FALSE /\ d_pc \in {Scripts[i] : i \in 1..Len(Scripts)}
    /\ orgs_csv \in SeqsUpTo(OrgCsvRows, MaxOrgs)
    /\ raw_organy \in SeqsUpTo(RawOrganyRows, MaxRaw)
    /\ pos_lens \in SUBSET PosLens
    /\ snap_written = {}
    /\ d_err = "none"
    /\ d_term = Absent

\* run_current_term, lines 49-75: the object handed to json.dumps; a NaN
\* dissolution date is true in "until if until else None"
CurrentTermObj(orgs, rows) ==
    LET until == ReadCsvCell(orgs[TermIdx(orgs)].dissolution_date)
    IN [id |-> TermNumericId(orgs),
        since |-> TermSince(orgs),
        until |-> IF Truthy(until) THEN Some(until) ELSE Absent,
        identifier |-> _term_number_from_raw_organy(rows, TermNumericId(orgs)).term_no]

\* one script: it raises and ends the run, or writes its outputs and returns
RunScript(name, err) ==
    /\ IF err # "none"
       THEN /\ d_pc' = "failed"
            /\ d_err' = err
            /\ UNCHANGED snap_written
       ELSE /\ snap_written' = snap_written \cup OutputsOf(name)
            /\ d_pc' = IF d_batch THEN NextScript(name) ELSE "done"
            /\ UNCHANGED d_err
    /\ d_term' = IF err = "none" /\ name = "current_term"
                 THEN Some(CurrentTermObj(orgs_csv, raw_organy))
                 ELSE d_term
    /\ UNCHANGED <<d_batch, orgs_csv, raw_organy, pos_lens>>
    /\ UNCHANGED <<votesVars, readerVars, parserVars, restVars>>

run_current_members ==
    /\ d_pc = "current_members"
    /\ RunScript("current_members", CurrentMembersErr(orgs_csv, pos_lens))

run_current_groups ==
    /\ d_pc = "current_groups"
    /\ RunScript("current_groups", GroupsErr(orgs_csv))

run_current_term ==
    /\ d_pc = "current_term"
    /\ RunScript("current_term", CurrentTermErr(orgs_csv, raw_organy))

run_all_groups ==
    /\ d_pc = "all_groups"
    /\ RunScript("all_groups", GroupsErr(orgs_csv))

run_all_members ==
    /\ d_pc = "all_members"
    /\ RunScript("all_members", AllMembersErr(orgs_csv, pos_lens))

DeriveNext ==
    \/ run_current_members
    \/ run_current_groups
    \/ run_current_term
    \/ run_all_groups
    \/ run_all_members

----------------------------------------------------------------------------
(* Raw record reader: scripts/utils_io.py *)

LF == "\n"
CR == "\r"
CRLF == "\r\n"      \* the two-character line ending, kept as one unit
FF == "\f"          \* form feed: a line boundary for str.splitlines only
FileChars == {"a", "|", LF, CRLF, FF}
ExpectedCounts == {<<>>, <<1>>, <<2>>}

\* str.split(sep) for one-character separators: the pieces between them,
\* empty pieces included
RECURSIVE SplitOn(_, _)
SplitOn(s, seps) ==
    IF \A i \in 1..Len(s) : s[i] \notin seps THEN <<s>>
    ELSE LET k == CHOOSE i \in 1..Len(s) :
                      s[i] \in seps /\ \A j \in 1..(i - 1) : s[j] \notin seps
         IN <<SubSeq(s, 1, k - 1)>> \o SplitOn(SubSeq(s, k + 1, Len(s)), seps)

NonEmpty(line) == line # <<>>

\* [line.split("|") for line in raw.splitlines() if line != ""]
UnlRows(content) ==
    LET lines == SelectSeq(SplitOn(content, {LF, CRLF, FF}), NonEmpty)
    IN [i \in 1..Len(lines) |-> SplitOn(lines[i], {"|"})]

\* len(cols) != expected_ncols, when a count is expected
Deviant(cols, expected) == expected # <<>> /\ Len(cols) # expected[1]

\* read_unl: the rows, or an error when a row deviates
read_unl(content, expected) ==
    LET rows == UnlRows(content)
    IN IF \E i \in 1..Len(rows) : Deviant(rows[i], expected)
       THEN [raised |-> TRUE, rows |-> <<>>]
       ELSE [raised |-> FALSE, rows |-> rows]

\* the file object opened with newline="": a line ends after the first
\* "\n" or "\r\n", form feed does not end it
LineLen(rest) ==
    IF \E i \in 1..Len(rest) : rest[i] \in {LF, CRLF}
    THEN CHOOSE i \in 1..Len(rest) :
             rest[i] \in {LF, CRLF} /\ \A j \in 1..(i - 1) : rest[j] \notin {LF, CRLF}
    ELSE Len(rest)

\* line.rstrip("\n"): the "\n" goes, the "\r" of a "\r\n" stays
RstripLF(line) ==
    IF line = <<>> THEN line
    ELSE IF line[Len(line)] = LF THEN SubSeq(line, 1, Len(line) - 1)
    ELSE IF line[Len(line)] = CRLF THEN Append(SubSeq(line, 1, Len(line) - 1), CR)
    ELSE line

ReaderIdle ==
    /\ r_mode = "idle"
    /\ r_pc = "idle"
    /\ r_content = <<>>
    /\ r_expected = <<>>
    /\ r_rest = <<>>
    /\ r_rows = <<>>

ReaderStart ==
    /\ r_mode \in {"read_unl", "read_unl_iter"}
    /\ r_pc = "call"
    /\ r_content \in SeqsUpTo(FileChars, MaxLen)
    /\ r_expected \in ExpectedCounts
    /\ r_rest = r_content
    /\ r_rows = <<>>

\* read_unl, lines 11-21
ReadUnl ==
    /\ r_mode = "read_unl"
    /\ r_pc = "call"
    /\ LET res == read_unl(r_content, r_expected)
       IN /\ r_pc' = IF res.raised THEN "raised" ELSE "done"
          /\ r_rows' = res.rows
    /\ r_rest' = <<>>
    /\ UNCHANGED <<r_mode, r_content, r_expected>>
    /\ UNCHANGED <<votesVars, deriveVars, parserVars, restVars>>

\* read_unl_iter, lines 29-39: one pass of the loop over the lines of the file
IterLine ==
    /\ r_mode = "read_unl_iter"
    /\ r_pc = "call"
    /\ r_rest # <<>>
    /\ LET n == LineLen(r_rest)
           line == RstripLF(SubSeq(r_rest, 1, n))
           cols == SplitOn(line, {"|"})
       IN /\ r_rest' = SubSeq(r_rest, n + 1, Len(r_rest))
          /\ IF line = <<>>
             THEN UNCHANGED <<r_pc, r_rows>>
             ELSE IF Deviant(cols, r_expected)
                  THEN r_pc' = "raised" /\ UNCHANGED r_rows
                  ELSE r_rows' = Append(r_rows, cols) /\ UNCHANGED r_pc
    /\ UNCHANGED <<r_mode, r_content, r_expected>>
    /\ UNCHANGED <<votesVars, deriveVars, parserVars, restVars>>

\* read_unl_iter: the file is exhausted
IterEnd ==
    /\ r_mode = "read_unl_iter"
    /\ r_pc = "call"
    /\ r_rest = <<>>
    /\ r_pc' = "done"
    /\ UNCHANGED <<r_mode, r_content, r_expected, r_rest, r_rows>>
    /\ UNCHANGED <<votesVars, deriveVars, parserVars, restVars>>

ReaderNext ==
    \/ ReadUnl
    \/ IterLine
    \/ IterEnd

----------------------------------------------------------------------------
(* Entity standardizer: scripts/standardize_poslanci.py *)

RawFiles == {"osoby.unl", "organy.unl", "zarazeni.unl"}
CanonicalTables == {"persons.csv", "organizations.csv", "memberships.csv"}

\* the expected_ncols given to read_unl for each raw file
ExpectedNcols(file) ==
    CASE file = "osoby.unl" -> 10
      [] file = "organy.unl" -> 11
      [] file = "zarazeni.unl" -> 8

\* the field counts a row of the raw file can have in the model
RowWidths(file) == {ExpectedNcols(file) - 1, ExpectedNcols(file)}

\* the other order: each table written as soon as it is built
StandardizeOrder_WriteAsBuilt ==
    << [op |-> "read", file |-> "osoby.unl"],
       [op |-> "write", file |-> "persons.csv"],
       [op |-> "read", file |-> "organy.unl"],
       [op |-> "write", file |-> "organizations.csv"],
       [op |-> "read", file |-> "zarazeni.unl"],
       [op |-> "write", file |-> "memberships.csv"] >>

\* the reads and writes of standardize, in the order of its body
StandardizeOrder ==
    << [op |-> "read", file |-> "osoby.unl"],
       [op |-> "read", file |-> "organy.unl"],
       [op |-> "read", file |-> "zarazeni.unl"],
       [op |-> "write", file |-> "persons.csv"],
       [op |-> "write", file |-> "organizations.csv"],
       [op |-> "write", file |-> "memberships.csv"] >>

\* read_unl's test: some row has a field count other than the expected one
SchemaMismatch(widths, n) == \E i \in 1..Len(widths) : widths[i] # n

EntityIdle ==
    /\ e_pc = "idle"
    /\ e_i = 0
    /\ e_raw = <<>>
    /\ e_read = {}
    /\ e_written = {}
    /\ e_err = "none"

EntityStart ==
    /\ e_pc = "running"
    /\ e_i = 1
    /\ e_raw \in {f \in [RawFiles -> SeqsUpTo(UNION {RowWidths(x) : x \in RawFiles}, MaxRows)] :
                    \A x \in RawFiles : \A i \in 1..Len(f[x]) : f[x][i] \in RowWidths(x)}
    /\ e_read = {}
    /\ e_written = {}
    /\ e_err = "none"

\* the position after the statement at e_i
Advance ==
    /\ e_i' = e_i + 1
    /\ e_pc' = IF e_i = Len(StandardizeOrder) THEN "done" ELSE "running"

\* read_unl(raw_dir / file, expected_ncols=...) and the table built from it
ReadRaw(file) ==
    /\ e_pc = "running"
    /\ StandardizeOrder[e_i] = [op |-> "read", file |-> file]
    /\ IF SchemaMismatch(e_raw[file], ExpectedNcols(file))
       THEN /\ e_pc' = "failed"
            /\ e_err' = file
            /\ UNCHANGED <<e_i, e_read>>
       ELSE /\ Advance
            /\ e_read' = e_read \cup {file}
            /\ UNCHANGED e_err
    /\ UNCHANGED <<e_raw, e_written>>
    /\ UNCHANGED <<dateVars, genderVars, votesVars, deriveVars, readerVars, restVars>>

\* df.to_csv(path)
WriteTable(file) ==
    /\ e_pc = "running"
    /\ StandardizeOrder[e_i] = [op |-> "write", file |-> file]
    /\ Advance
    /\ e_written' = e_written \cup {file}
    /\ UNCHANGED <<e_raw, e_read, e_err>>
    /\ UNCHANGED <<dateVars, genderVars, votesVars, deriveVars, readerVars, restVars>>

ReadOsoby ==
    /\ e_pc = "running"
    /\ ReadRaw("osoby.unl")

ReadOrgany ==
    /\ e_pc = "running"
    /\ ReadRaw("organy.unl")

ReadZarazeni ==
    /\ e_pc = "running"
    /\ ReadRaw("zarazeni.unl")

WritePersons ==
    /\ e_pc = "running"
    /\ WriteTable("persons.csv")

WriteOrganizations ==
    /\ e_pc = "running"
    /\ WriteTable("organizations.csv")

WriteMemberships ==
    /\ e_pc = "running"
    /\ WriteTable("memberships.csv")

EntityNext ==
    \/ ReadOsoby
    \/ ReadOrgany
    \/ ReadZarazeni
    \/ WritePersons
    \/ WriteOrganizations
    \/ WriteMemberships

----------------------------------------------------------------------------
(* _parse_psp_date and _parse_psp_gender: scripts/standardize_poslanci.py *)

RECURSIVE Flatten(_)
Flatten(ss) == IF ss = <<>> THEN <<>> ELSE Head(ss) \o Flatten(Tail(ss))

\* str.zfill(2): zeros on the left up to two characters, after a leading sign
zfill2(s) ==
    IF Len(s) >= 2 THEN s
    ELSE IF s = <<>> THEN <<"0", "0">>
    ELSE IF s[1] \in {"+", "-"} THEN <<s[1], "0">>
    ELSE <<"0", s[1]>>

_parse_psp_date(d) ==
    IF d = <<>> THEN Absent
    ELSE IF Len(SplitOn(d, {"."})) = 3
    THEN LET p == SplitOn(d, {"."})
         IN Some(p[3] \o <<"-">> \o zfill2(p[2]) \o <<"-">> \o zfill2(p[1]))
    ELSE IF \E i \in 1..Len(d) : d[i] = "-"
    THEN Some(SplitOn(d, {" "})[1])
    ELSE Absent

\* the pieces raw dates are put together from
DatePieces ==
    { <<"9">>, <<"0", "7">>, <<"1", "9", "9", "4">>,
      <<"2", "0", "0", "9", "-", "1", "1", "-", "0", "4">>,
      <<".">>, <<"-">>, <<" ">>, <<"x">> }

DateInputs == {Flatten(ps) : ps \in SeqsUpTo(DatePieces, MaxTokens)}

DateIdle ==
    /\ date_pc = "idle"
    /\ date_d = <<>>
    /\ date_ret = Absent

DateStart ==
    /\ date_pc = "call"
    /\ date_d \in DateInputs
    /\ date_ret = Absent

ParseDate ==
    /\ date_pc = "call"
    /\ date_pc' = "done"
    /\ date_ret' = _parse_psp_date(date_d)
    /\ UNCHANGED date_d
    /\ UNCHANGED <<entityVars, genderVars, votesVars, deriveVars, readerVars, restVars>>

GenderChars == {"M", "m", "Z", "z", ZCaron, zCaron, "F", " "}

\* the variant with a named value for every other input
_parse_psp_gender_Unknown(g) ==
    IF upper(strip(g)) = <<"M">> THEN Some("male")
    ELSE IF upper(strip(g)) \in {<<"Z">>, <<ZCaron>>} THEN Some("female")
    ELSE Some("unknown")

_parse_psp_gender(g) ==
    IF g = <<>> THEN Absent
    ELSE LET gg == upper(strip(g))
         IN IF gg = <<"M">> THEN Some("male")
            ELSE IF gg \in {<<"Z">>, <<ZCaron>>} THEN Some("female")
            ELSE Absent

GenderIdle ==
    /\ gender_pc = "idle"
    /\ gender_g = <<>>
    /\ gender_ret = Absent

GenderStart ==
    /\ gender_pc = "call"
    /\ gender_g \in SeqsUpTo(GenderChars, MaxGender)
    /\ gender_ret = Absent

\* "gender": df_osoby["gender_raw"].map(_parse_psp_gender), for one person
ParseGender ==
    /\ gender_pc = "call"
    /\ gender_pc' = "done"
    /\ gender_ret' = _parse_psp_gender(gender_g)
    /\ UNCHANGED gender_g
    /\ UNCHANGED <<entityVars, dateVars, votesVars, deriveVars, readerVars, restVars>>

ParsersIdle == EntityIdle /\ DateIdle /\ GenderIdle

----------------------------------------------------------------------------
(* One call of a pure helper *)

CallIdle ==
    /\ call_fn = "idle"
    /\ call_pc = "idle"
    /\ call_arg = <<>>
    /\ call_ret = <<>>

\* the characters of raw option codes
OptionChars == {"A", "a", "B", "N", "n", "C", "K", "k", "F", "@", "M", "W", "Z", " "}

MapOptionStart ==
    /\ call_fn = "_map_option"
    /\ call_pc = "call"
    /\ call_arg \in SeqsUpTo(OptionChars, MaxCode)
    /\ call_ret = <<>>

\* "option": _map_option(code), for one ballot row
MapOption ==
    /\ call_fn = "_map_option"
    /\ call_pc = "call"
    /\ call_pc' = "done"
    /\ call_ret' = _map_option(call_arg)
    /\ UNCHANGED <<call_fn, call_arg>>
    /\ UNCHANGED <<votesVars, deriveVars, readerVars, parserVars>>
    /\ UNCHANGED <<rosterVars, lateVars>>

----------------------------------------------------------------------------
(* Roster derivations: scripts/analyses/run_current_members.py and         *)
(* scripts/analyses/run_all_members.py.  A value held by the code is        *)
(* Absent for None, Some(NaN) for the float NaN and Some(text) for a str.   *)

\* the strings the roster code compares, in the order of Python's str "<"
StrOrder ==
    << "", "2021-10-08", "2025-10-03", Date, "2026-01-15",
       "A", "B", "nan",
       "psp:org:201", "psp:org:301", "psp:org:302", "psp:org:801", "psp:org:901",
       "psp:person:10", "psp:person:9" >>

Rank(s) == CHOOSE i \in 1..Len(StrOrder) : StrOrder[i] = s

current_term_id == "psp:org:201"
current_term_name == LegislatureName

\* the clubs of the term: club_id_to_name
ClubIds == {"psp:org:301", "psp:org:302"}
club_id_to_name(oid) == IF oid = "psp:org:301" THEN "ANO" ELSE "ODS"

\* the candidate list and the constituency named by every poslanec.unl row
CandidateListId == "psp:org:801"
ConstituencyId == "psp:org:901"
org_id_to_name(oid) ==
    CASE oid = CandidateListId -> "Kandidatka"
      [] oid = ConstituencyId -> "Kraj"
      [] oid = current_term_id -> current_term_name
      [] OTHER -> club_id_to_name(oid)

PersonIds == {"psp:person:10", "psp:person:9"}

_none_if_nan(v) == IF v = Some(NaN) THEN Absent ELSE v

\* v or "", for the key of sorted(): None and "" give "", NaN stays
OrEmpty(v) == IF v = Absent \/ v = Some("") THEN "" ELSE v[1]

\* str(v) of a cell
StrOf(cell) == IF cell = NaN THEN "nan" ELSE cell

_membership_item(org_id, org_name, start_date, end_date) ==
    [id |-> org_id,
     name |-> org_name,
     start_date |-> _none_if_nan(start_date),
     end_date |-> _none_if_nan(end_date)]

\* key=lambda x: (x.get("start_date") or "", x.get("id") or ""), compared with "<"
ItemBefore(x, y) ==
    LET kx == OrEmpty(x.start_date)
        ky == OrEmpty(y.start_date)
    IN \/ Rank(kx) < Rank(ky)
       \/ kx = ky /\ Rank(x.id) < Rank(y.id)

RECURSIVE InsertItem(_, _)
InsertItem(s, e) ==
    IF s = <<>> THEN <<e>>
    ELSE IF ~ItemBefore(e, s[Len(s)]) THEN Append(s, e)
    ELSE Append(InsertItem(SubSeq(s, 1, Len(s) - 1), e), s[Len(s)])

\* the variant that keeps the order of the membership rows
SortItems_RowOrder(s) == s

\* sorted(items, key=...): stable
RECURSIVE SortItems(_)
SortItems(s) ==
    IF s = <<>> THEN <<>>
    ELSE InsertItem(SortItems(SubSeq(s, 1, Len(s) - 1)), s[Len(s)])

\* sort_values(["name", "id"]): ascending, NaN names last
NameRank(v) == IF v = Some(NaN) THEN Len(StrOrder) + 1 ELSE Rank(v[1])

RecordBefore(x, y) ==
    \/ NameRank(x.name) < NameRank(y.name)
    \/ x.name = y.name /\ Rank(x.id) < Rank(y.id)

RECURSIVE InsertRecord(_, _)
InsertRecord(s, e) ==
    IF s = <<>> THEN <<e>>
    ELSE IF ~RecordBefore(e, s[Len(s)]) THEN Append(s, e)
    ELSE Append(InsertRecord(SubSeq(s, 1, Len(s) - 1), e), s[Len(s)])

RECURSIVE sort_values(_)
sort_values(s) ==
    IF s = <<>> THEN <<>>
    ELSE InsertRecord(sort_values(SubSeq(s, 1, Len(s) - 1)), s[Len(s)])

\* the membership rows of one person in the given organizations, in row order
RowsOf(rows, pid, orgs) ==
    LET sel(r) == r.person_id = pid /\ r.organization_id \in orgs
    IN SelectSeq(rows, sel)

\* the parliament items appended for the term rows of a person
ParliamentItems(rows, pid) ==
    LET rs == RowsOf(rows, pid, {current_term_id})
    IN [i \in 1..Len(rs) |->
           _membership_item(current_term_id, current_term_name,
                            Some(rs[i].start_date), Some(rs[i].end_date))]

\* the groups items appended for the club rows of a person
GroupItems(rows, pid) ==
    LET rs == RowsOf(rows, pid, ClubIds)
    IN [i \in 1..Len(rs) |->
           _membership_item(rs[i].organization_id, club_id_to_name(rs[i].organization_id),
                            Some(rs[i].start_date), Some(rs[i].end_date))]

\* _mem_for: sort the two lists, then date the candidate list and the
\* constituency of a person with a poslanec.unl row like the first parliament item
_mem_for(parliament, groups, has_pos_row) ==
    LET p == SortItems(parliament)
        g == SortItems(groups)
        start_date == IF p = <<>> THEN Absent ELSE p[1].start_date
        end_date == IF p = <<>> THEN Absent ELSE p[1].end_date
        one(oid) == IF has_pos_row
                    THEN <<[id |-> oid, name |-> org_id_to_name(oid),
                            start_date |-> start_date, end_date |-> end_date]>>
                    ELSE <<>>
    IN [parliament |-> p, groups |-> g,
        candidate_list |-> one(CandidateListId), constituency |-> one(ConstituencyId)]

\* lines 69-81 of run_current_members: the persons flagged current
current_person_ids(pos) ==
    {pos[i].person_id : i \in {j \in 1..Len(pos) : pos[j].is_current = "1"}}

\* the entry appended for a current person without a term row (lines 114-123)
SynthesizedItem(term_since) ==
    [id |-> current_term_id, name |-> current_term_name,
     start_date |-> Some(term_since), end_date |-> Absent]

\* the variant without the fallback entry
ParliamentOrFallback_NoFallback(rows, pid, term_since) == ParliamentItems(rows, pid)

ParliamentOrFallback(rows, pid, term_since) ==
    IF ParliamentItems(rows, pid) = <<>>
    THEN <<SynthesizedItem(term_since)>>
    ELSE ParliamentItems(rows, pid)

CurrentRecordOf(person, rows, term_since) ==
    [id |-> person.id,
     name |-> Some(person.name),
     memberships |-> _mem_for(ParliamentOrFallback(rows, person.id, term_since),
                              GroupItems(rows, person.id), TRUE)]

\* persons[isin(current_person_ids)] left-merged with the current rows of
\* poslanec.unl: one output row per matching flag row (lines 83-85)
RECURSIVE MergedCurrent(_, _, _, _)
MergedCurrent(persons, pos, rows, term_since) ==
    IF persons = <<>> THEN <<>>
    ELSE LET p == Head(persons)
             hit(r) == r.person_id = p.id /\ r.is_current = "1"
             n == Len(SelectSeq(pos, hit))
         IN [i \in 1..n |-> CurrentRecordOf(p, rows, term_since)]
            \o MergedCurrent(Tail(persons), pos, rows, term_since)

\* the variant that keeps every row
OverlapRows_EveryRow(rows, term_since) == rows

\* lines 101-102 of run_all_members: end_date.fillna(""), then the rows that
\* have not ended before the term
OverlapRows(rows, term_since) ==
    LET filled == [i \in 1..Len(rows) |->
                      [rows[i] EXCEPT !.end_date = IF @ = NaN THEN "" ELSE @]]
        keep(r) == r.end_date = "" \/ Rank(r.end_date) >= Rank(StrOf(term_since))
    IN SelectSeq(filled, keep)

\* lines 105-106: the persons with a term row among them
all_person_ids(rows) ==
    {rows[i].person_id : i \in {j \in 1..Len(rows) : rows[j].organization_id = current_term_id}}

AllRecordOf(person, rows, pos) ==
    [id |-> person.id,
     name |-> Some(person.name),
     memberships |-> _mem_for(ParliamentItems(rows, person.id),
                              GroupItems(rows, person.id),
                              \E i \in 1..Len(pos) : pos[i].person_id = person.id)]

\* the variant that cleans the top-level fields only
_sanitize_json_TopLevel(rec) == [rec EXCEPT !.name = _none_if_nan(@)]

\* _sanitize_json: through the record, the memberships dict and its lists
_sanitize_json(rec) ==
    LET item(x) == [x EXCEPT !.start_date = _none_if_nan(@), !.end_date = _none_if_nan(@)]
        items(l) == [i \in 1..Len(l) |-> item(l[i])]
    IN [id |-> rec.id,
        name |-> _none_if_nan(rec.name),
        memberships |-> [k \in DOMAIN rec.memberships |-> items(rec.memberships[k])]]

\* json.dumps(..., allow_nan=False) raises on a float NaN anywhere
HasNaN(records) ==
    \E i \in 1..Len(records) :
        \/ records[i].name = Some(NaN)
        \/ \E k \in DOMAIN records[i].memberships :
              \E j \in 1..Len(records[i].memberships[k]) :
                  \/ records[i].memberships[k][j].start_date = Some(NaN)
                  \/ records[i].memberships[k][j].end_date = Some(NaN)

\* what run_current_members hands to json.dumps
CurrentMembers(persons, rows, pos, term_since) ==
    LET cur(p) == p.id \in current_person_ids(pos)
        out == sort_values(MergedCurrent(SelectSeq(persons, cur), pos, rows, term_since))
    IN [i \in 1..Len(out) |-> _sanitize_json(out[i])]

\* what run_all_members hands to json.dumps
AllMembers(persons, rows, pos, term_since) ==
    LET kept == OverlapRows(rows, term_since)
        member(p) == p.id \in all_person_ids(kept)
        sel == SelectSeq(persons, member)
        out == sort_values([i \in 1..Len(sel) |-> AllRecordOf(sel[i], kept, pos)])
    IN [i \in 1..Len(out) |-> _sanitize_json(out[i])]

\* (start_date, end_date) cells of a membership row: ongoing since the term
\* began, of unknown start and ended within the term, ended before the term
Spans == { <<Date, NaN>>, <<NaN, "2026-01-15">>, <<"2021-10-08", "2025-10-03">> }

MembershipRows ==
    { [person_id |-> p, organization_id |-> o, start_date |-> sp[1], end_date |-> sp[2]] :
        p \in PersonIds, o \in {current_term_id} \cup ClubIds, sp \in Spans }

\* persons.csv: unique ids, a person may be missing from the table and a
\* name may have been read back as NaN
Missing == "<missing>"
PersonsTables ==
    { LET present(r) == r.name # Missing
      IN SelectSeq(<< [id |-> "psp:person:10", name |-> n10],
                      [id |-> "psp:person:9", name |-> n9] >>, present) :
        n10 \in {"B", NaN, Missing}, n9 \in {"A", "B"} }

PosRow(pid, flag) == [person_id |-> pid, is_current |-> flag]

\* poslanec.unl, the rows of the current term (id_osoba and the current flag)
PosTables ==
    { <<>>,
      <<PosRow("psp:person:10", "1"), PosRow("psp:person:9", "1")>>,
      <<PosRow("psp:person:10", "0"), PosRow("psp:person:9", "1")>>,
      <<PosRow("psp:person:10", "1"), PosRow("psp:person:10", "1")>> }

RosterIdle ==
    /\ ro_pc = "idle"
    /\ ro_persons = <<>>
    /\ ro_memberships = <<>>
    /\ ro_pos = <<>>
    /\ ro_term_since = NaN
    /\ ro_current = <<>>
    /\ ro_all = <<>>
    /\ ro_written = {}
    /\ ro_err = "none"

GroupsIdle ==
    /\ g_pc = "idle"
    /\ g_orgs = <<>>
    /\ g_current = <<>>
    /\ g_all = <<>>
    /\ g_written = {}

RerunIdle ==
    /\ rr_pc = "idle"
    /\ rr_run = 0
    /\ rr_orgs = <<>>
    /\ rr_roster = <<>>
    /\ rr_term_since = NaN
    /\ rr_prior = <<>>
    /\ rr_files = <<>>
    /\ rr_first = <<>>
    /\ rr_written = {}

PipelineIdle ==
    /\ pipe_pc = "idle"
    /\ pipe_ds = 0
    /\ pipe_bucket = FALSE
    /\ pipe_fault = <<>>
    /\ pipe_log = <<>>
    /\ pipe_uploaded = {}
    /\ pipe_pointers = {}

LateIdle == GroupsIdle /\ RerunIdle /\ PipelineIdle

RestIdle == CallIdle /\ RosterIdle /\ LateIdle

RosterStart ==
    /\ ro_pc = "current_members"
    /\ ro_persons \in PersonsTables
    /\ ro_memberships \in SeqsUpTo(MembershipRows, MaxMemberships)
    /\ ro_pos \in PosTables
    /\ ro_term_since \in {Date, NaN}
    /\ ro_current = <<>>
    /\ ro_all = <<>>
    /\ ro_written = {}
    /\ ro_err = "none"

\* run_current_members, lines 83-229: the CSV is written, then the JSON
DeriveCurrentMembers ==
    /\ ro_pc = "current_members"
    /\ LET records == CurrentMembers(ro_persons, ro_memberships, ro_pos, ro_term_since)
       IN IF HasNaN(records)
          THEN /\ ro_pc' = "failed"
               /\ ro_err' = "json_nan"
               /\ ro_written' = ro_written \cup {"current_members.csv"}
               /\ UNCHANGED ro_current
          ELSE /\ ro_pc' = "all_members"
               /\ ro_current' = records
               /\ ro_written' = ro_written \cup {"current_members.csv", "current_members.json"}
               /\ UNCHANGED ro_err
    /\ UNCHANGED <<ro_persons, ro_memberships, ro_pos, ro_term_since, ro_all>>
    /\ UNCHANGED <<votesVars, deriveVars, readerVars, parserVars>>
    /\ UNCHANGED <<callVars, lateVars>>

\* run_all_members, lines 92-231: the JSON is written, then the CSV
DeriveAllMembers ==
    /\ ro_pc = "all_members"
    /\ LET records == AllMembers(ro_persons, ro_memberships, ro_pos, ro_term_since)
       IN IF HasNaN(records)
          THEN /\ ro_pc' = "failed"
               /\ ro_err' = "json_nan"
               /\ UNCHANGED <<ro_all, ro_written>>
          ELSE /\ ro_pc' = "done"
               /\ ro_all' = records
               /\ ro_written' = ro_written \cup {"all_members.json", "all_members.csv"}
               /\ UNCHANGED ro_err
    /\ UNCHANGED <<ro_persons, ro_memberships, ro_pos, ro_term_since, ro_current>>
    /\ UNCHANGED <<votesVars, deriveVars, readerVars, parserVars>>
    /\ UNCHANGED <<callVars, lateVars>>

RosterNext ==
    \/ DeriveCurrentMembers
    \/ DeriveAllMembers



----------------------------------------------------------------------------
(* Groups views: scripts/analyses/run_current_groups.py, run_all_groups.py *)

\* A name is a sequence of tokens: the club substring as one token, one
\* whitespace character, or another word.  <<NaN>> is the cell read back empty.
PK == "Poslanecky klub"
SP == " "
TokenOrder == <<SP, "ANO", "ODS", PK, "nan">>     \* by first character

TokenRank(t) == CHOOSE i \in 1..Len(TokenOrder) : TokenOrder[i] = t

\* a < b for two strings, token by token
RECURSIVE NameLess(_, _)
NameLess(a, b) ==
    IF b = <<>> THEN FALSE
    ELSE IF a = <<>> THEN TRUE
    ELSE IF Head(a) # Head(b) THEN TokenRank(Head(a)) < TokenRank(Head(b))
    ELSE NameLess(Tail(a), Tail(b))

\* orgs["name"].fillna("")
FillNaName(name) == IF name = <<NaN>> THEN <<>> ELSE name

\* str.contains("Poslanecký klub", regex=False)
ContainsClub(name) == \E i \in 1..Len(name) : name[i] = PK

\* astype(str)
AsTypeStr(name) == IF name = <<NaN>> THEN <<"nan">> ELSE name

\* the whitespace run matched by \s+ and what follows it
RECURSIVE SkipWhitespace(_)
SkipWhitespace(s) ==
    IF s # <<>> /\ Head(s) = SP THEN SkipWhitespace(Tail(s)) ELSE s

\* str.replace(r"^Poslanecký klub\s+", "", regex=True): the pattern matches at
\* the start of the name only, and only with whitespace after the substring
ReplacePrefix(name) ==
    IF Len(name) >= 2 /\ name[1] = PK /\ name[2] = SP
    THEN SkipWhitespace(Tail(name))
    ELSE name

\* line 27: the normalized name
GroupName(name) == strip(ReplacePrefix(AsTypeStr(name)))

GroupOrgIds == <<"psp:org:301", "psp:org:302", "psp:org:801">>  \* id of the i-th row
OtherTermId == "psp:org:172"

\* the i-th row of organizations.csv as read by pandas, with its id
GroupRowAt(orgs, i) ==
    [id |-> GroupOrgIds[i], name |-> orgs[i].name,
     classification |-> orgs[i].classification,
     parent_id |-> orgs[i].parent_id,
     founding_date |-> orgs[i].founding_date,
     dissolution_date |-> orgs[i].dissolution_date]

\* Faulty variant of GroupRows: only the clubs without a dissolution date
GroupRows_Undissolved(orgs) ==
    LET Sel(i) == /\ orgs[i].parent_id = current_term_id
                  /\ ContainsClub(FillNaName(orgs[i].name))
                  /\ orgs[i].dissolution_date = NaN
        RECURSIVE From(_)
        From(i) ==
            IF i > Len(orgs) THEN <<>>
            ELSE IF Sel(i) THEN <<GroupRowAt(orgs, i)>> \o From(i + 1)
                 ELSE From(i + 1)
    IN From(1)

\* line 24: the rows selected, in file order, each with its id
GroupRows(orgs) ==
    LET Sel(i) == /\ orgs[i].parent_id = current_term_id
                  /\ ContainsClub(FillNaName(orgs[i].name))
        RECURSIVE From(_)
        From(i) ==
            IF i > Len(orgs) THEN <<>>
            ELSE IF Sel(i)
                 THEN <<GroupRowAt(orgs, i)>> \o From(i + 1)
                 ELSE From(i + 1)
    IN From(1)

\* lines 27-31: the name normalized, the classification forced
NormalizeGroup(r) ==
    [r EXCEPT !.name = GroupName(r.name), !.classification = "group"]

\* line 48: key (str(name or ""), str(id or ""))
GroupBefore(a, b) ==
    \/ NameLess(a.name, b.name)
    \/ a.name = b.name /\ Rank(a.id) < Rank(b.id)

RECURSIVE InsertGroup(_, _)
InsertGroup(s, e) ==
    IF s = <<>> THEN <<e>>
    ELSE IF ~GroupBefore(e, s[Len(s)]) THEN Append(s, e)
    ELSE Append(InsertGroup(SubSeq(s, 1, Len(s) - 1), e), s[Len(s)])

\* sorted(records, key=...), stable
RECURSIVE SortGroups(_)
SortGroups(s) ==
    IF s = <<>> THEN <<>>
    ELSE InsertGroup(SortGroups(SubSeq(s, 1, Len(s) - 1)), s[Len(s)])

\* run_all_groups, line 22: the rows selected, in file order
AllGroupRows(orgs) ==
    LET Sel(i) == /\ orgs[i].parent_id = current_term_id
                  /\ ContainsClub(FillNaName(orgs[i].name))
        RECURSIVE From(_)
        From(i) ==
            IF i > Len(orgs) THEN <<>>
            ELSE IF Sel(i) THEN <<GroupRowAt(orgs, i)>> \o From(i + 1)
                 ELSE From(i + 1)
    IN From(1)

\* run_all_groups, lines 22-41: the records of the all-groups view
AllGroupRecords(orgs) ==
    LET sel == AllGroupRows(orgs)
    IN SortGroups([i \in 1..Len(sel) |-> NormalizeGroup(sel[i])])

\* run_current_groups, lines 24-48: the records of the current-groups view
GroupRecords(orgs) ==
    LET sel == GroupRows(orgs)
    IN SortGroups([i \in 1..Len(sel) |-> NormalizeGroup(sel[i])])

GroupNames ==
    { <<PK, SP, "ANO">>, <<PK, SP, "ODS">>, <<PK>>, <<PK, "ANO">>, <<PK, SP>>,
      <<"ANO", SP, PK>>, <<SP, PK, SP, "ANO">>, <<PK, SP, SP, "ODS">>,
      <<"ANO">>, <<NaN>> }

\* (founding_date, dissolution_date) cells of a club, as read back
GroupDates == { <<Date, NaN>>, <<Date, "2026-01-15">>, <<NaN, NaN>> }

\* rows of organizations.csv other than the term's own row
GroupOrgRows ==
    { [name |-> n, parent_id |-> p, classification |-> "organization",
       founding_date |-> d[1], dissolution_date |-> d[2]] :
        n \in GroupNames, p \in {current_term_id, OtherTermId}, d \in GroupDates }

\* the rows of a club founded with the term and not dissolved
RerunOrgRows ==
    {r \in GroupOrgRows : r.founding_date = Date /\ r.dissolution_date = NaN}

GroupsStart ==
    /\ g_pc = "current_groups"
    /\ g_orgs \in SeqsUpTo(GroupOrgRows, MaxGroupOrgs)
    /\ g_current = <<>>
    /\ g_all = <<>>
    /\ g_written = {}

\* run_current_groups, lines 24-61: the JSON is written, then the CSV
DeriveCurrentGroups ==
    /\ g_pc = "current_groups"
    /\ g_current' = GroupRecords(g_orgs)
    /\ g_written' = g_written \cup {"current_groups.json", "current_groups.csv"}
    /\ g_pc' = "all_groups"
    /\ UNCHANGED <<g_orgs, g_all>>
    /\ UNCHANGED <<votesVars, deriveVars, readerVars, parserVars>>
    /\ UNCHANGED <<callVars, rosterVars, rerunVars, pipelineVars>>

\* run_all_groups, lines 22-56
DeriveAllGroups ==
    /\ g_pc = "all_groups"
    /\ g_all' = AllGroupRecords(g_orgs)
    /\ g_written' = g_written \cup {"all_groups.json", "all_groups.csv"}
    /\ g_pc' = "done"
    /\ UNCHANGED <<g_orgs, g_current>>
    /\ UNCHANGED <<votesVars, deriveVars, readerVars, parserVars>>
    /\ UNCHANGED <<callVars, rosterVars, rerunVars, pipelineVars>>

GroupsNext ==
    \/ DeriveCurrentGroups
    \/ DeriveAllGroups

----------------------------------------------------------------------------
(* The snapshot batch run twice over the same inputs: scripts/analyses/run_all.py,
   with the output files' content.  The term's row of organizations.csv is
   taken as found (the errors before that are those of the derivation batch
   above); its founding date may have been read back as NaN. *)

FileNames ==
    UNION {OutputsOf(Scripts[i]) : i \in 1..Len(Scripts)}

\* the script that writes a file
ScriptOf(n) == CHOOSE s \in {Scripts[i] : i \in 1..Len(Scripts)} : n \in OutputsOf(s)

NoFile == [exists |-> FALSE, rows |-> <<>>]
StaleFile == [exists |-> TRUE, rows |-> <<[stale |-> TRUE]>>]

\* Faulty variant of write_csv: the file is opened for appending
write_csv_Append(prior, rows) == [exists |-> TRUE, rows |-> prior.rows \o rows]

\* write_csv: open(path, "w") truncates the file, then header and rows
write_csv(prior, rows) == [exists |-> TRUE, rows |-> rows]

\* Path.write_text: the file is replaced by the text
write_text(prior, rows) == [exists |-> TRUE, rows |-> rows]

\* run_current_term, lines 59-75: since.split fails on a float
CurrentTermRows(term_since) ==
    <<[id |-> current_term_id, name |-> current_term_name, since |-> term_since]>>

\* what a script derives from the inputs for its output files
DerivedRows(name, orgs, roster, term_since) ==
    CASE name = "current_members" ->
            CurrentMembers(roster[1], roster[2], roster[3], term_since)
      [] name = "all_members" ->
            AllMembers(roster[1], roster[2], roster[3], term_since)
      [] name = "current_term" -> CurrentTermRows(term_since)
      [] name = "current_groups" -> GroupRecords(orgs)
      [] name = "all_groups" -> AllGroupRecords(orgs)

\* the error a script ends with on these inputs
RerunErr(name, term_since) ==
    IF name = "current_term" /\ term_since = NaN THEN "attribute_error" ELSE "none"

\* the files after a script: its JSON by write_text, its CSV by write_csv
FilesAfter(files, name, rows) ==
    [n \in FileNames |->
        IF n \notin OutputsOf(name) THEN files[n]
        ELSE IF n \in {"current_members.csv", "current_groups.csv",
                       "all_groups.csv", "all_members.csv"}
             THEN write_csv(files[n], rows)
             ELSE write_text(files[n], rows)]

RerunPersons ==
    << [id |-> "psp:person:10", name |-> "B"], [id |-> "psp:person:9", name |-> "A"] >>

RerunMembershipRows ==
    { [person_id |-> "psp:person:9", organization_id |-> current_term_id,
       start_date |-> Date, end_date |-> NaN],
      [person_id |-> "psp:person:10", organization_id |-> "psp:org:301",
       start_date |-> "2021-10-08", end_date |-> "2025-10-03"] }

\* persons.csv, memberships.csv and the rows of poslanec.unl
RerunRosters ==
    { <<RerunPersons, m, pos>> :
        m \in SeqsUpTo(RerunMembershipRows, 1),
        pos \in { <<PosRow("psp:person:10", "1"), PosRow("psp:person:9", "1")>>,
                  <<PosRow("psp:person:10", "0"), PosRow("psp:person:9", "1")>> } }

\* the output directory before the first run: empty, left by an earlier run
\* over other inputs, or holding only files of the all-views
PriorFiles ==
    { [n \in FileNames |-> IF ScriptOf(n) \in old THEN StaleFile ELSE NoFile] :
        old \in { {}, {"all_groups", "all_members"},
                  {Scripts[i] : i \in 1..Len(Scripts)} } }

RerunStart ==
    /\ rr_pc = "current_members"
    /\ rr_run = 1
    /\ rr_orgs \in SeqsUpTo(RerunOrgRows, MaxRerunOrgs)
    /\ rr_roster \in RerunRosters
    /\ rr_term_since \in {Date, NaN}
    /\ rr_prior \in PriorFiles
    /\ rr_files = rr_prior
    /\ rr_first = rr_prior
    /\ rr_written = {}

\* one script of run_all: it raises and ends the batch, or writes its files
RerunScript(name) ==
    /\ IF RerunErr(name, rr_term_since) # "none"
       THEN /\ rr_pc' = "failed"
            /\ UNCHANGED <<rr_files, rr_written>>
       ELSE /\ rr_files' = FilesAfter(rr_files, name,
                               DerivedRows(name, rr_orgs, rr_roster, rr_term_since))
            /\ rr_written' = rr_written \cup OutputsOf(name)
            /\ rr_pc' = NextScript(name)
    /\ UNCHANGED <<rr_run, rr_orgs, rr_roster, rr_term_since, rr_prior, rr_first>>
    /\ UNCHANGED <<votesVars, deriveVars, readerVars, parserVars>>
    /\ UNCHANGED <<callVars, rosterVars, groupsVars, pipelineVars>>

WriteCurrentMembers ==
    /\ rr_pc = "current_members"
    /\ RerunScript("current_members")

WriteCurrentGroups ==
    /\ rr_pc = "current_groups"
    /\ RerunScript("current_groups")

WriteCurrentTerm ==
    /\ rr_pc = "current_term"
    /\ RerunScript("current_term")

WriteAllGroups ==
    /\ rr_pc = "all_groups"
    /\ RerunScript("all_groups")

WriteAllMembers ==
    /\ rr_pc = "all_members"
    /\ RerunScript("all_members")

\* the caller invokes the batch again over the same inputs
RunAgain ==
    /\ rr_pc \in {"done", "failed"}
    /\ rr_run = 1
    /\ rr_run' = 2
    /\ rr_pc' = "current_members"
    /\ rr_first' = rr_files
    /\ rr_written' = {}
    /\ UNCHANGED <<rr_orgs, rr_roster, rr_term_since, rr_prior, rr_files>>
    /\ UNCHANGED <<votesVars, deriveVars, readerVars, parserVars>>
    /\ UNCHANGED <<callVars, rosterVars, groupsVars, pipelineVars>>

RerunNext ==
    \/ WriteCurrentMembers
    \/ WriteCurrentGroups
    \/ WriteCurrentTerm
    \/ WriteAllGroups
    \/ WriteAllMembers
    \/ RunAgain

----------------------------------------------------------------------------

(* The pipeline run: pipelines/run_pipeline.py, run().  A call is named by
   the function called, the dataset it is about and what it handles; at most
   one call of a run raises, which one is the environment's choice. *)

Call(fn) == [fn |-> fn, dataset |-> "-", key |-> "-"]

NoFault == Call("none")

\* lines 72-88
RetrieveCalls ==
    << Call("_ensure_work_dirs"), Call("load_dotenv"), Call("download_file"),
       Call("unpack_zip"), Call("download_hl_file"), Call("unpack_hl_zip") >>

\* line 92
StandardizeEntitiesCalls == << Call("standardize") >>

\* lines 96-104
StandardizeBallotsCalls == << Call("standardize_hl_votes") >>

\* lines 107-111
ValidateCalls ==
    << Call("validate_from_config"), Call("validate_votes_table"),
       Call("validate_vote_events"), Call("validate_motions") >>

\* line 114
DeriveSnapshotsCalls == << Call("run_all") >>

\* lines 117-141; lines 127-131 read the term identifier and the term id
ValidateSnapshotsCalls ==
    << Call("validate_outputs"), Call("validate_current_groups_json"),
       Call("validate_current_groups_csv"), Call("validate_current_term_json"),
       Call("_read_psp_term_identifier"), Call("validate_all_groups"),
       Call("validate_all_members") >>

\* lines 148-152 and 183-187: the datasets of the two publish loops
Datasets ==
    << "persons", "organizations", "memberships", "votes", "vote-events", "motions" >>

\* lines 159-180 and 194-215: one pass of a publish loop
PublishCalls(ds, bucket) ==
    IF bucket
    THEN << [fn |-> "upload_file", dataset |-> ds, key |-> "snapshot"],
            [fn |-> "prune_snapshots", dataset |-> ds, key |-> "snapshots/"],
            [fn |-> "_write_latest_pointer", dataset |-> ds, key |-> "latest.json"],
            [fn |-> "upload_file", dataset |-> ds, key |-> "latest.json"] >>
    ELSE << [fn |-> "_write_latest_pointer", dataset |-> ds, key |-> "latest.json"] >>

\* everything before step 5 of run()
PrePublishCalls ==
    RetrieveCalls \o StandardizeEntitiesCalls \o StandardizeBallotsCalls
        \o ValidateCalls \o DeriveSnapshotsCalls \o ValidateSnapshotsCalls

RECURSIVE PublishFrom(_, _)
PublishFrom(i, bucket) ==
    IF i > Len(Datasets) THEN <<>>
    ELSE PublishCalls(Datasets[i], bucket) \o PublishFrom(i + 1, bucket)

\* the calls of a run nothing goes wrong in, in order
AllCalls(bucket) == PrePublishCalls \o PublishFrom(1, bucket)

\* Faulty variant of RunCalls: the exception is caught and the run goes on
RunCalls_Swallow(calls, fault) ==
    [done |-> SelectSeq(calls, LAMBDA c : c # fault), raised |-> FALSE]

\* a stretch of run(): run() has no try block, so the calls return one after
\* the other until one raises, and the exception leaves run()
RunCalls(calls, fault) ==
    IF \E i \in 1..Len(calls) : calls[i] = fault
    THEN LET k == CHOOSE i \in 1..Len(calls) :
                    /\ calls[i] = fault
                    /\ \A j \in 1..(i - 1) : calls[j] # fault
         IN [done |-> SubSeq(calls, 1, k - 1), raised |-> TRUE]
    ELSE [done |-> calls, raised |-> FALSE]

\* the remote keys written by the calls that returned
UploadsOf(done) ==
    { <<done[i].dataset, done[i].key>> : i \in {j \in 1..Len(done) : done[j].fn = "upload_file"} }

\* the datasets whose data/<dataset>/latest.json was written
PointersOf(done) ==
    { done[i].dataset : i \in {j \in 1..Len(done) : done[j].fn = "_write_latest_pointer"} }

PipelineStart ==
    /\ pipe_pc = "retrieve"
    /\ pipe_ds = 1
    /\ pipe_bucket \in BOOLEAN
    /\ pipe_fault \in {NoFault} \cup {AllCalls(pipe_bucket)[i] : i \in 1..Len(AllCalls(pipe_bucket))}
    /\ pipe_log = <<>>
    /\ pipe_uploaded = {}
    /\ pipe_pointers = {}

\* one stage: its calls in order, the run left at the first that raises
RunStage(calls, next, ds) ==
    LET r == RunCalls(calls, pipe_fault)
    IN /\ pipe_log' = pipe_log \o r.done
       /\ pipe_uploaded' = pipe_uploaded \cup UploadsOf(r.done)
       /\ pipe_pointers' = pipe_pointers \cup PointersOf(r.done)
       /\ pipe_pc' = IF r.raised THEN "failed" ELSE next
       /\ pipe_ds' = ds
       /\ UNCHANGED <<pipe_bucket, pipe_fault>>
       /\ UNCHANGED <<votesVars, deriveVars, readerVars, parserVars>>
       /\ UNCHANGED <<callVars, rosterVars, groupsVars, rerunVars>>

Retrieve ==
    /\ pipe_pc = "retrieve"
    /\ RunStage(RetrieveCalls, "standardize_entities", pipe_ds)

StandardizeEntities ==
    /\ pipe_pc = "standardize_entities"
    /\ RunStage(StandardizeEntitiesCalls, "standardize_ballots", pipe_ds)

StandardizeBallots ==
    /\ pipe_pc = "standardize_ballots"
    /\ RunStage(StandardizeBallotsCalls, "validate", pipe_ds)

Validate ==
    /\ pipe_pc = "validate"
    /\ RunStage(ValidateCalls, "derive_snapshots", pipe_ds)

DeriveSnapshots ==
    /\ pipe_pc = "derive_snapshots"
    /\ RunStage(DeriveSnapshotsCalls, "validate_snapshots", pipe_ds)

ValidateSnapshots ==
    /\ pipe_pc = "validate_snapshots"
    /\ RunStage(ValidateSnapshotsCalls, "publish", pipe_ds)

\* one pass of the loops of lines 148-180 and 183-215
PublishDataset ==
    /\ pipe_pc = "publish"
    /\ RunStage(PublishCalls(Datasets[pipe_ds], pipe_bucket),
                IF pipe_ds = Len(Datasets) THEN "done" ELSE "publish",
                IF pipe_ds = Len(Datasets) THEN pipe_ds ELSE pipe_ds + 1)

PipelineNext ==
    \/ Retrieve
    \/ StandardizeEntities
    \/ StandardizeBallots
    \/ Validate
    \/ DeriveSnapshots
    \/ ValidateSnapshots
    \/ PublishDataset

----------------------------------------------------------------------------

(* Specifications: one per component, the other components idle *)

\* the ballot standardizer
Init == VotesStart /\ DeriveIdle /\ ReaderIdle /\ ParsersIdle /\ RestIdle

Next == VotesNext

Spec == Init /\ [][Next]_vars

\* the snapshot derivation batch and its five scripts
DeriveInit == DeriveStart /\ VotesIdle /\ ReaderIdle /\ ParsersIdle /\ RestIdle

DeriveSteps == DeriveNext

SpecDerive == DeriveInit /\ [][DeriveSteps]_vars

\* the raw record reader, in either mode
ReaderInit == ReaderStart /\ VotesIdle /\ DeriveIdle /\ ParsersIdle /\ RestIdle

SpecReader == ReaderInit /\ [][ReaderNext]_vars

OthersIdle == VotesIdle /\ DeriveIdle /\ ReaderIdle /\ RestIdle

\* the entity standardizer
EntityInit == EntityStart /\ DateIdle /\ GenderIdle /\ OthersIdle

SpecEntity == EntityInit /\ [][EntityNext]_vars

\* the date parser on one raw date
DateInit == DateStart /\ EntityIdle /\ GenderIdle /\ OthersIdle

SpecDate == DateInit /\ [][ParseDate]_vars

\* the gender parser on one raw gender
GenderInit == GenderStart /\ EntityIdle /\ DateIdle /\ OthersIdle

SpecGender == GenderInit /\ [][ParseGender]_vars

FirstIdle == VotesIdle /\ DeriveIdle /\ ReaderIdle /\ ParsersIdle

\* the option mapping on one raw code
MapOptionInit == MapOptionStart /\ RosterIdle /\ LateIdle /\ FirstIdle

SpecOption == MapOptionInit /\ [][MapOption]_vars

\* the two roster derivations, in the order of run_all
RosterInit == RosterStart /\ CallIdle /\ LateIdle /\ FirstIdle

SpecRoster == RosterInit /\ [][RosterNext]_vars

\* the two groups views, in the order of run_all
GroupsInit == GroupsStart /\ RerunIdle /\ PipelineIdle /\ CallIdle /\ RosterIdle /\ FirstIdle

SpecGroups == GroupsInit /\ [][GroupsNext]_vars

\* run_all, run twice over the same inputs
RerunInit == RerunStart /\ GroupsIdle /\ PipelineIdle /\ CallIdle /\ RosterIdle /\ FirstIdle

SpecRerun == RerunInit /\ [][RerunNext]_vars

\* one run of the pipeline
PipelineInit ==
    PipelineStart /\ GroupsIdle /\ RerunIdle /\ CallIdle /\ RosterIdle /\ FirstIdle

SpecPipeline == PipelineInit /\ [][PipelineNext]_vars

----------------------------------------------------------------------------
(* Properties of the ballot standardizer, checked under Spec *)

VoteRows == csv_rows \o parquet_rows \o batch

\* C1: no VoteEvent, no Motion and no Vote record, in memory or written,
\* refers to a vote identifier of the void set; a ballot row that names a
\* void id is dropped even if its member id maps.
C1_VoidExcluded ==
    \A v \in zmatecne_ids :
        /\ \A i \in 1..Len(vote_events) :
              /\ vote_events[i].identifier # v
              /\ vote_events[i].id # <<"psp:vote-event:", v>>
              /\ vote_events[i].motion_id # <<"psp:motion:", v>>
        /\ \A i \in 1..Len(motions) :
              /\ motions[i].identifier # v
              /\ motions[i].id # <<"psp:motion:", v>>
        /\ \A i \in 1..Len(VoteRows) :
              VoteRows[i].vote_event_id # <<"psp:vote-event:", v>>

\* a completed run whose vote-event table held a void id, with a streamed
\* ballot of a mapped member naming that id next to accepted ballots
C1_Witness ==
    /\ pc = "done"
    /\ csv_rows # <<>>
    /\ \E v \in zmatecne_ids :
          /\ \E i \in 1..Len(hlas_rows) : hlas_rows[i].hid = v
          /\ \E j \in 1..Len(ballots_read) :
                /\ ballots_read[j].hid = v
                /\ ballots_read[j].id_poslanec \in DOMAIN poslanec_to_osoba

\* the records of the accepted ballot rows, in input order
RECURSIVE ExpectedVotes(_, _, _)
ExpectedVotes(reads, valid, mapping) ==
    IF reads = <<>> THEN <<>>
    ELSE LET rest == ExpectedVotes(Tail(reads), valid, mapping)
         IN IF reads[1].hid \in valid /\ reads[1].id_poslanec \in DOMAIN mapping
            THEN <<[vote_event_id |-> <<"psp:vote-event:", reads[1].hid>>,
                    voter_id |-> <<"psp:person:", mapping[reads[1].id_poslanec]>>,
                    option |-> _map_option(reads[1].code)]>> \o rest
            ELSE rest

\* C2: when the run completes, the columnar row sequence equals the
\* row-oriented one and both are the accepted ballot records in input order,
\* whatever the batch size.
C2_BatchIndependent ==
    pc = "done" =>
        /\ parquet_rows = csv_rows
        /\ csv_rows = ExpectedVotes(ballots_read, valid_vote_ids, poslanec_to_osoba)

\* a completed run with at least one full batch flushed inside the loop and a
\* partial batch left for the final flush
C2_Witness ==
    /\ pc = "done"
    /\ batch # <<>>
    /\ Len(batch) < batch_size
    /\ Len(csv_rows) > Len(batch)

\* C6: a failed run of standardize_hl_votes has written or updated none of
\* its output files.
C6_NoOutputOnFailure == pc = "failed" => written = {}

\* the list is in ascending order of int(identifier)
AscendingById(list) ==
    \A i, j \in 1..Len(list) :
        i < j => IntOf(list[i].identifier) <= IntOf(list[j].identifier)

\* C12: the VoteEvent and Motion lists, as written, are each ascending by
\* the numeric identifier, have the same length and correspond position by
\* position: same raw id, motion_id of the one is the id of the other, and
\* pass/fail/null goes with passed/failed/null.
C12_SortedAndAligned ==
    "vote_events.json" \in written =>
        /\ AscendingById(vote_events)
        /\ AscendingById(motions)
        /\ Len(vote_events) = Len(motions)
        /\ \A i \in 1..Len(vote_events) :
              /\ vote_events[i].motion_id = motions[i].id
              /\ vote_events[i].identifier = motions[i].identifier
              /\ vote_events[i].id = <<"psp:vote-event:", motions[i].identifier>>
              /\ (vote_events[i].result = Some("pass")) <=> (motions[i].result = Some("passed"))
              /\ (vote_events[i].result = Some("fail")) <=> (motions[i].result = Some("failed"))
              /\ (vote_events[i].result = Absent) <=> (motions[i].result = Absent)
              /\ vote_events[i].result \in {Some("pass"), Some("fail"), Absent}

\* two vote events read in descending order of id, with different results,
\* have been written in ascending order
C12_Witness ==
    /\ "vote_events.json" \in written
    /\ Len(hlas_rows) = 2
    /\ hlas_rows[1].hid = "2" /\ hlas_rows[2].hid = "1"
    /\ Len(vote_events) = 2
    /\ vote_events[1].identifier = "1"
    /\ vote_events[1].result = Some("fail")
    /\ motions[2].result = Absent

\* the raw ids of the VoteEvents of the output
EmittedIds == {vote_events[i].identifier : i \in 1..Len(vote_events)}

\* C25: when the run completes, the Vote output is, in input order, one record
\* per ballot row whose vote id is the identifier of an emitted VoteEvent and
\* whose member id has a non-empty entry in the mapping, repeated rows giving
\* repeated records and the other rows being dropped; so every Vote refers to
\* the id of a VoteEvent of the output.
C25_VotesOfEmittedEvents ==
    pc = "done" =>
        /\ csv_rows = ExpectedVotes(ballots_read, EmittedIds, poslanec_to_osoba)
        /\ \A i \in 1..Len(csv_rows) :
              \E j \in 1..Len(vote_events) : vote_events[j].id = csv_rows[i].vote_event_id

\* a completed run that read the same accepted ballot row twice and dropped
\* a third row
C25_Witness ==
    /\ pc = "done"
    /\ Len(ballots_read) = 3
    /\ ballots_read[1] = ballots_read[3]
    /\ Len(csv_rows) = 2
    /\ csv_rows[1] = csv_rows[2]

\* C30: once hl2025s.unl and zmatecne.unl have been read with their column
\* counts satisfied, no content of the identifier, date, time or result-code
\* fields makes the Ballot Standardizer raise: the step that sorts and writes
\* the VoteEvents and Motions never ends in failure.
C30_ParsingNeverAborts ==
    [][pc = "sort" => pc' # "failed"]_vars

----------------------------------------------------------------------------
(* Properties of the snapshot derivation, checked under SpecDerive *)

\* the Organizations of organizations.csv with the legislature name and no
\* dissolution date
MatchingOrgs ==
    {i \in 1..Len(orgs_csv) :
        orgs_csv[i].name = LegislatureName /\ orgs_csv[i].dissolution_date = ""}

\* C3: with exactly one matching Organization no derivation fails on the
\* current-term resolution; with zero or several the run never completes,
\* run_all fails with that error, and no snapshot output is written.
C3_SingleCurrentTerm ==
    d_pc # "idle" =>
        /\ Cardinality(MatchingOrgs) = 1 => d_err # "term_count"
        /\ Cardinality(MatchingOrgs) # 1 =>
              /\ snap_written = {}
              /\ d_pc # "done"
              /\ (d_batch /\ d_pc = "failed") => d_err = "term_count"

\* run_all has failed on two Organizations matching the predicate
C3_Witness ==
    /\ d_batch
    /\ d_pc = "failed"
    /\ Cardinality(MatchingOrgs) = 2

\* C4: when run_all fails on the abbreviation of the current-term
\* organization, none of the five snapshot views has been written.
C4_BadAbbrWritesNothing ==
    (d_batch /\ d_pc = "failed" /\ d_err = "abbr") => snap_written = {}

\* C5: when the unique current-term Organization has no founding date, none
\* of run_current_members, run_all_members, run_current_term writes its
\* outputs.
C5_MissingFoundingAborts ==
    (/\ Cardinality(MatchingOrgs) = 1
     /\ \A i \in MatchingOrgs : orgs_csv[i].founding_date = "")
    => snap_written \cap (OutputsOf("current_members") \cup OutputsOf("all_members")
                          \cup OutputsOf("current_term")) = {}

\* the rows of organy.unl whose id is the numeric part of the current term's id
TermRawRows ==
    {i \in 1..Len(raw_organy) : raw_organy[i].id_organ = TermNumericId(orgs_csv)}

\* the abbreviation of the first of them
FirstTermAbbr ==
    raw_organy[CHOOSE i \in TermRawRows : \A j \in TermRawRows : i <= j].abbr

\* "PSP" followed by one or more digits
IsPspDigits(a) ==
    /\ Len(a) >= 4
    /\ SubSeq(a, 1, 3) = <<"P", "S", "P">>
    /\ \A i \in 4..Len(a) : a[i] \in Digits

\* run_current_term gets as far as the lookup in organy.unl
LookupReached ==
    /\ Cardinality(CurTermIdx(orgs_csv)) = 1
    /\ TermSince(orgs_csv) # NaN

\* C21: when run_current_term looks the term up in organy.unl, the first raw
\* row with the term's numeric id decides: with an abbreviation "PSP" plus one
\* or more digits current_term.json is written with exactly those digits as
\* the identifier; with any other abbreviation of that row ("PSP" alone
\* included), or with no row of that id, the script fails and writes nothing.
C21_TermIdentifier ==
    [][(d_pc = "current_term" /\ LookupReached) =>
          IF TermRawRows # {} /\ IsPspDigits(FirstTermAbbr)
          THEN /\ d_pc' # "failed"
               /\ "current_term.json" \in snap_written'
               /\ d_term' # Absent
               /\ d_term'[1].identifier = SubSeq(FirstTermAbbr, 4, Len(FirstTermAbbr))
          ELSE /\ d_pc' = "failed"
               /\ d_err' = (IF TermRawRows = {} THEN "term_not_found" ELSE "abbr")
               /\ snap_written' = snap_written
               /\ "current_term.json" \notin snap_written
               /\ d_term' = Absent]_vars

\* run_current_term has failed on the abbreviation "PSP" of the first row with
\* the term's id although a later row with that id reads "PSP10"
C21_Witness ==
    /\ d_pc = "failed"
    /\ d_err = "abbr"
    /\ Len(raw_organy) = 2
    /\ raw_organy[1].id_organ = raw_organy[2].id_organ
    /\ raw_organy[1].abbr = <<"P", "S", "P">>
    /\ raw_organy[2].abbr = PSP10
    /\ d_term = Absent

\* C26: when some row of poslanec.unl does not have exactly 16 fields, each of
\* the two roster derivations fails and writes no output, even when other
\* rows do have 16 fields.
C26_AnyDeviantFlagRowFails ==
    [][(d_pc \in {"current_members", "all_members"} /\ \E n \in pos_lens : n # 16)
          => (d_pc' = "failed" /\ snap_written' = snap_written)]_vars


\* the dates of a groups record, as handed to json.dumps
GroupDatesOf(recs) ==
    {recs[i].founding_date : i \in 1..Len(recs)}
        \cup {recs[i].dissolution_date : i \in 1..Len(recs)}

\* C27: an absent date is written as JSON null: the until of the object
\* written to current_term.json is None when the term has no dissolution
\* date, and no record of current_groups.json or all_groups.json carries NaN
\* as founding or dissolution date.
C27_AbsentDatesAreNull ==
    /\ d_term # Absent => d_term[1].until # Some(NaN)
    /\ NaN \notin GroupDatesOf(g_current) \cup GroupDatesOf(g_all)

----------------------------------------------------------------------------
(* Properties of the raw record reader, checked under SpecReader *)

\* the lines of a text file: the pieces between "\n" or "\r\n" endings
\* (a form feed is an ordinary character of its line)
TextLines(content) == SelectSeq(SplitOn(content, {LF, CRLF}), NonEmpty)

\* some non-empty line has a number of "|"-separated fields other than n
SomeLineDeviates(content, n) ==
    \E i \in 1..Len(TextLines(content)) :
        Len(SplitOn(TextLines(content)[i], {"|"})) # n

\* C7: a finished read has raised exactly when a count was expected and some
\* non-empty line deviates from it; read_unl returns no rows when it raises.
C7_RaisesIffDeviantLine ==
    r_pc \in {"done", "raised"} =>
        /\ r_pc = "raised" <=>
              (r_expected # <<>> /\ SomeLineDeviates(r_content, r_expected[1]))
        /\ (r_mode = "read_unl" /\ r_pc = "raised") => r_rows = <<>>

\* C24: the two reader modes agree: for every content and expected count the
\* streaming reader, consumed to its end, has raised exactly when the
\* materialized reader raises on the same file, and otherwise has yielded the
\* rows the materialized reader returns.
C24_ReaderModesAgree ==
    (r_mode = "read_unl_iter" /\ r_pc \in {"done", "raised"}) =>
        /\ (r_pc = "raised") = read_unl(r_content, r_expected).raised
        /\ r_pc = "done" => r_rows = read_unl(r_content, r_expected).rows

----------------------------------------------------------------------------
(* Properties of the entity standardizer, checked under SpecEntity *)

\* C8: a run that failed on a column count has written none of the three
\* canonical tables, and a table is only ever written after all three raw
\* files have been read and validated.
C8_AllOrNothing ==
    /\ e_pc = "failed" => e_written = {}
    /\ e_written # {} => e_read = RawFiles

\* the last raw file read has a deviant row, after two valid files
C8_Witness ==
    /\ e_pc = "failed"
    /\ e_err = "zarazeni.unl"
    /\ e_read = {"osoby.unl", "organy.unl"}
    /\ Len(e_raw["osoby.unl"]) > 0

----------------------------------------------------------------------------
(* Properties of _parse_psp_date, checked under SpecDate *)

IsDigits(s) == s # <<>> /\ \A i \in 1..Len(s) : s[i] \in Digits

\* D.M.YYYY: one or two digits, one or two digits, four digits
ShapeDMY(d) ==
    LET p == SplitOn(d, {"."})
    IN /\ Len(p) = 3
       /\ IsDigits(p[1]) /\ Len(p[1]) \in {1, 2}
       /\ IsDigits(p[2]) /\ Len(p[2]) \in {1, 2}
       /\ IsDigits(p[3]) /\ Len(p[3]) = 4

\* YYYY-MM-DD
ShapeYMD(d) ==
    /\ Len(d) = 10
    /\ \A i \in {1, 2, 3, 4, 6, 7, 9, 10} : d[i] \in Digits
    /\ d[5] = "-" /\ d[8] = "-"

\* YYYY-MM-DD, or YYYY-MM-DD, a space and an hour
ShapeISO(d) ==
    \/ ShapeYMD(d)
    \/ /\ Len(d) > 11
       /\ ShapeYMD(SubSeq(d, 1, 10))
       /\ d[11] = " "
       /\ IsDigits(SubSeq(d, 12, Len(d)))

PadTwo(s) == IF Len(s) = 1 THEN <<"0">> \o s ELSE s

\* C9: a raw date of shape D.M.YYYY gives YYYY-MM-DD zero-padded, one of
\* shape YYYY-MM-DD[ HH] gives its YYYY-MM-DD part, and every other string
\* gives None.
C9_OtherShapesAbsent ==
    date_pc = "done" =>
        date_ret =
            IF ShapeDMY(date_d)
            THEN LET p == SplitOn(date_d, {"."})
                 IN Some(p[3] \o <<"-">> \o PadTwo(p[2]) \o <<"-">> \o PadTwo(p[1]))
            ELSE IF ShapeISO(date_d) THEN Some(SubSeq(date_d, 1, 10))
            ELSE Absent

----------------------------------------------------------------------------
(* Properties of _parse_psp_gender, checked under SpecGender *)

\* g is the one letter c, with nothing but spaces around it
OneLetter(g, c) ==
    \E i \in 1..Len(g) : g[i] = c /\ \A j \in 1..Len(g) : j # i => g[j] = " "

\* C10 as stated: M or m gives male, Z or z with or without caron gives
\* female, every other raw value gives 'unknown'.
C10_OthersUnknown ==
    gender_pc = "done" =>
        gender_ret =
            IF gender_g \in {<<"M">>, <<"m">>} THEN Some("male")
            ELSE IF gender_g \in {<<"Z">>, <<"z">>, <<ZCaron>>, <<zCaron>>} THEN Some("female")
            ELSE Some("unknown")

\* C10 amended: with the spaces around it set aside, M or m gives male, Z or
\* z with or without caron gives female, and every other raw value, the
\* empty one included, gives None: a gender is male, female or absent.
C10_OthersAbsent ==
    gender_pc = "done" =>
        /\ gender_ret =
              IF \E c \in {"M", "m"} : OneLetter(gender_g, c) THEN Some("male")
              ELSE IF \E c \in {"Z", "z", ZCaron, zCaron} : OneLetter(gender_g, c)
                   THEN Some("female")
              ELSE Absent
        /\ gender_ret \in {Some("male"), Some("female"), Absent}

\* a raw value that is neither empty nor one of the letters came out absent
C10_Witness ==
    /\ gender_pc = "done"
    /\ gender_g = <<"F">>
    /\ gender_ret = Absent

----------------------------------------------------------------------------
(* Properties of _map_option, checked under SpecOption *)

OptionValues ==
    {"yes", "no", "abstain", "not voting", "absent", "excused", "not member", "unknown"}

\* the code is the one letter c in either case, with nothing but spaces around it
IsCode(code, c) == \E x \in {y \in OptionChars : UpperChar(y) = c} : OneLetter(code, x)

\* C11 as stated: after trimming and in either case A gives yes, B no,
\* C abstain, F not voting, @ absent, M excused, W not member, and every
\* other code gives unknown.
C11_SevenLetters ==
    (call_fn = "_map_option" /\ call_pc = "done") =>
        call_ret = CASE IsCode(call_arg, "A") -> "yes"
                     [] IsCode(call_arg, "B") -> "no"
                     [] IsCode(call_arg, "C") -> "abstain"
                     [] IsCode(call_arg, "F") -> "not voting"
                     [] IsCode(call_arg, "@") -> "absent"
                     [] IsCode(call_arg, "M") -> "excused"
                     [] IsCode(call_arg, "W") -> "not member"
                     [] OTHER -> "unknown"

\* C11 amended: as stated, and also N gives no and K gives abstain; every
\* other code, the empty one included, gives unknown; the result is one of
\* the eight values, and whether a ballot row is kept does not depend on
\* its code.
C11_NineLetters ==
    (call_fn = "_map_option" /\ call_pc = "done") =>
        /\ call_ret = CASE IsCode(call_arg, "A") -> "yes"
                        [] IsCode(call_arg, "B") \/ IsCode(call_arg, "N") -> "no"
                        [] IsCode(call_arg, "C") \/ IsCode(call_arg, "K") -> "abstain"
                        [] IsCode(call_arg, "F") -> "not voting"
                        [] IsCode(call_arg, "@") -> "absent"
                        [] IsCode(call_arg, "M") -> "excused"
                        [] IsCode(call_arg, "W") -> "not member"
                        [] OTHER -> "unknown"
        /\ call_ret \in OptionValues
        /\ \A m \in Members, h \in BallotIds, valid \in SUBSET BallotIds, mapping \in PoslanecTables :
              Accepts([id_poslanec |-> m, hid |-> h, code |-> call_arg], valid, mapping)
                  = Accepts([id_poslanec |-> m, hid |-> h, code |-> <<"A">>], valid, mapping)

\* a lower-case alternative letter with a space before it came out as no
C11_Witness ==
    /\ call_fn = "_map_option"
    /\ call_pc = "done"
    /\ call_arg = <<" ", "n">>
    /\ call_ret = "no"

----------------------------------------------------------------------------
(* Properties of the roster derivations, checked under SpecRoster *)

MembershipKinds == {"parliament", "groups", "candidate_list", "constituency"}

\* the records of both roster views, as written
RosterRecords == {ro_current[i] : i \in 1..Len(ro_current)} \cup {ro_all[i] : i \in 1..Len(ro_all)}

\* position of a start_date in the order "absent first, then ascending"
StartRank(v) == IF v = Absent THEN 0 ELSE Rank(v[1])

\* position of a name in the order "ascending, absent last"
NameOrder(v) == IF v = Absent THEN Len(StrOrder) + 1 ELSE Rank(v[1])

ItemsInOrder(l) ==
    \A i, j \in 1..Len(l) :
        i < j => \/ StartRank(l[i].start_date) < StartRank(l[j].start_date)
                 \/ /\ l[i].start_date = l[j].start_date
                    /\ Rank(l[i].id) <= Rank(l[j].id)

RosterInOrder(l) ==
    \A i, j \in 1..Len(l) :
        i < j => \/ NameOrder(l[i].name) < NameOrder(l[j].name)
                 \/ /\ l[i].name = l[j].name
                    /\ Rank(l[i].id) <= Rank(l[j].id)

\* C13: in both roster views every membership-kind list of every person is
\* ordered by start_date (absent first), then id, and the roster itself is
\* ordered by name, then id (a record without a name comes after the named).
C13_RosterSorted ==
    /\ \A r \in RosterRecords : \A k \in MembershipKinds : ItemsInOrder(r.memberships[k])
    /\ RosterInOrder(ro_current)
    /\ RosterInOrder(ro_all)

\* two current persons listed by name against the order of their ids, one of
\* them with two club rows given in the order opposite to their start dates
C13_Witness ==
    /\ ro_pc = "done"
    /\ Len(ro_current) = 2
    /\ ro_current[1].id = "psp:person:9"
    /\ ro_current[2].name = Some("B")
    /\ Len(ro_memberships) = 2
    /\ ro_memberships[1].start_date # NaN
    /\ ro_memberships[2].start_date = NaN
    /\ Len(ro_current[1].memberships["groups"]) = 2
    /\ ro_current[1].memberships["groups"][1].start_date = Absent

\* the person has no row in the term organization
NoTermRow(pid) ==
    \A i \in 1..Len(ro_memberships) :
        ~(ro_memberships[i].person_id = pid /\ ro_memberships[i].organization_id = current_term_id)

\* C14: in the current roster a person without a Membership row in the term
\* organization has exactly one parliament entry, the term from its start with
\* no end, and every record has a non-empty parliament list.
C14_SynthesizedParliament ==
    \A i \in 1..Len(ro_current) :
        /\ ro_current[i].memberships["parliament"] # <<>>
        /\ NoTermRow(ro_current[i].id) =>
              ro_current[i].memberships["parliament"] =
                  << [id |-> current_term_id, name |-> current_term_name,
                      start_date |-> IF ro_term_since = NaN THEN Absent ELSE Some(ro_term_since),
                      end_date |-> Absent] >>

\* a current person with club rows only, in a term with a start date
C14_Witness ==
    /\ ro_pc = "done"
    /\ ro_term_since = Date
    /\ \E i \in 1..Len(ro_current) :
          /\ NoTermRow(ro_current[i].id)
          /\ ro_current[i].memberships["groups"] # <<>>
          /\ ro_current[i].memberships["parliament"][1].start_date = Some(Date)

\* the persons of the persons table with a term row that is ongoing or ended
\* on or after the term start
TermMembers ==
    { ro_persons[p].id : p \in
        { q \in 1..Len(ro_persons) :
            \E i \in 1..Len(ro_memberships) :
                /\ ro_memberships[i].person_id = ro_persons[q].id
                /\ ro_memberships[i].organization_id = current_term_id
                /\ \/ ro_memberships[i].end_date = NaN
                   \/ Rank(ro_memberships[i].end_date) >= Rank(ro_term_since) } }

\* an end_date that is a date
IsDateValue(v) == v # Absent /\ v # Some("")

\* C16: with a term start date, the all roster holds exactly the persons of
\* the persons table that have a term row with end_date absent or on or after
\* the term start, each once, and no parliament or groups item of it carries
\* an end date earlier than the term start.
C16_AllRosterFilter ==
    (ro_pc = "done" /\ ro_term_since # NaN) =>
        /\ {ro_all[i].id : i \in 1..Len(ro_all)} = TermMembers
        /\ Len(ro_all) = Cardinality(TermMembers)
        /\ \A i \in 1..Len(ro_all) : \A k \in {"parliament", "groups"} :
              \A j \in 1..Len(ro_all[i].memberships[k]) :
                  IsDateValue(ro_all[i].memberships[k][j].end_date) =>
                      Rank(ro_all[i].memberships[k][j].end_date[1]) >= Rank(ro_term_since)

\* one person is in the all roster and the other one, whose only term row
\* ended before the term, is not
C16_Witness ==
    /\ ro_pc = "done"
    /\ ro_term_since = Date
    /\ Len(ro_persons) = 2
    /\ Len(ro_all) = 1
    /\ \E i \in 1..Len(ro_memberships) :
          /\ ro_memberships[i].organization_id = current_term_id
          /\ ro_memberships[i].end_date = "2025-10-03"
          /\ ro_memberships[i].person_id # ro_all[1].id

\* C17: in both roster views the end_date of a membership item is null or the
\* end date of a row, never an empty string; an item built from an ongoing
\* row has end_date null.
C17_OngoingEndNull ==
    \A r \in RosterRecords : \A k \in MembershipKinds :
        \A j \in 1..Len(r.memberships[k]) :
            r.memberships[k][j].end_date \in
                {Absent} \cup {Some(sp[2]) : sp \in {x \in Spans : x[2] # NaN}}

\* the persons-table name of a record was read back as NaN
NameWasNaN(rec) ==
    \E p \in 1..Len(ro_persons) : ro_persons[p].id = rec.id /\ ro_persons[p].name = NaN

\* C18: no derivation fails on a NaN; the records written hold no NaN at any
\* depth, a name that was NaN is null, and a synthesized entry of a term
\* whose start was NaN has start_date null; a JSON file is written only from
\* records without NaN.
C18_NoNaNInJson ==
    /\ ro_err = "none"
    /\ ~HasNaN(ro_current)
    /\ ~HasNaN(ro_all)
    /\ \A r \in RosterRecords : NameWasNaN(r) <=> r.name = Absent
    /\ \A i \in 1..Len(ro_current) :
          (NoTermRow(ro_current[i].id) /\ ro_term_since = NaN) =>
              ro_current[i].memberships["parliament"][1].start_date = Absent

\* a current person whose name was NaN, in a term whose start was NaN, with a
\* synthesized parliament entry: both written as null
C18_Witness ==
    /\ "current_members.json" \in ro_written
    /\ ro_term_since = NaN
    /\ \E i \in 1..Len(ro_current) :
          /\ NameWasNaN(ro_current[i])
          /\ NoTermRow(ro_current[i].id)
          /\ ro_current[i].name = Absent
          /\ ro_current[i].memberships["parliament"][1].start_date = Absent

\* C22: the two rosters differ only in the persons selected: a person with a
\* record in both has the same record in both (same parliament, groups,
\* candidate_list and constituency items with the same dates).
C22_SameRecordInBothRosters ==
    ro_pc = "done" =>
        \A i \in 1..Len(ro_current) : \A j \in 1..Len(ro_all) :
            ro_current[i].id = ro_all[j].id => ro_current[i] = ro_all[j]

\* the person ids of a roster
RosterIds(roster) == {roster[i].id : i \in 1..Len(roster)}

\* C28: derived from the same inputs, the all roster holds every person of the
\* current roster, the persons without a Membership row in the term
\* organization included.
C28_AllRosterHoldsCurrent ==
    ro_pc = "done" => RosterIds(ro_current) \subseteq RosterIds(ro_all)

\* no two records of the roster carry the same person id
UniqueIds(roster) ==
    \A i, j \in 1..Len(roster) : roster[i].id = roster[j].id => i = j

\* C29: with unique person ids in persons.csv, each person id appears in at
\* most one record of the current roster and in at most one record of the all
\* roster, whatever the number of current flag rows or term Membership rows
\* of the person.
C29_OneRecordPerPerson ==
    UniqueIds(ro_persons) => (UniqueIds(ro_current) /\ UniqueIds(ro_all))

----------------------------------------------------------------------------
(* Properties of the groups views, checked under SpecGroups *)

\* the records of both views, once written
GroupsViewRecords ==
    {g_current[i] : i \in 1..Len(g_current)} \cup {g_all[i] : i \in 1..Len(g_all)}

\* the row of organizations.csv a record was made from
GroupRowOf(rec) ==
    g_orgs[CHOOSE i \in 1..Len(g_orgs) : GroupOrgIds[i] = rec.id]

\* C15: every record of the groups views comes from an organization whose
\* parent_id is the current term's id and whose name contains the club
\* substring, has classification "group", and has a display name that no longer
\* contains the substring, wherever the substring stood in the original name
\* and whether or not whitespace followed it.
C15_NoDisplayNameWithSubstring ==
    \A rec \in GroupsViewRecords :
        /\ rec.parent_id = current_term_id
        /\ ContainsClub(FillNaName(GroupRowOf(rec).name))
        /\ rec.classification = "group"
        /\ ~ContainsClub(rec.name)

\* a club whose name starts with the substring followed by whitespace has been
\* written with the rest of its name
C15_PrefixStripped ==
    \E rec \in GroupsViewRecords :
        /\ GroupRowOf(rec).name = <<PK, SP, "ANO">>
        /\ rec.name = <<"ANO">>

\* C23: for every organizations table the current-groups view and the
\* all-groups view hold the same records in the same order.
C23_SameGroupsInBothViews ==
    g_pc = "done" => g_current = g_all

\* both views have been derived from a table with a dissolved club and a club
\* that is not dissolved, and hold both clubs
C23_Witness ==
    /\ g_pc = "done"
    /\ Len(g_all) = 2
    /\ g_all[1].dissolution_date # NaN
    /\ g_all[2].dissolution_date = NaN
    /\ g_current = g_all

----------------------------------------------------------------------------
(* Properties of the batch run twice, checked under SpecRerun *)

\* what the script of file n derives from the inputs of this behaviour
RowsFor(n) == DerivedRows(ScriptOf(n), rr_orgs, rr_roster, rr_term_since)

----------------------------------------------------------------------------
(* Properties of the pipeline run, checked under SpecPipeline *)

IsPrefix(s, t) == Len(s) <= Len(t) /\ SubSeq(t, 1, Len(s)) = s

\* the calls of the full order that come before the one that raises
CallsBeforeFault ==
    RunCalls(AllCalls(pipe_bucket), pipe_fault).done

\* C20: the stages run strictly in the order retrieve, standardize entities,
\* standardize ballots, validate, derive snapshots, validate snapshots,
\* publish, and the run is left at the first call that raises: the calls that
\* returned are always a beginning of the full order, a failed run holds
\* exactly the calls before the raising one, and a snapshot is uploaded or a
\* latest-pointer written only after every standardization, derivation and
\* validation call of the run has returned.
C20_InOrderAbortOnFirstError ==
    /\ IsPrefix(pipe_log, AllCalls(pipe_bucket))
    /\ pipe_pc = "failed" => (pipe_fault # NoFault /\ pipe_log = CallsBeforeFault)
    /\ (pipe_uploaded # {} \/ pipe_pointers # {}) => IsPrefix(PrePublishCalls, pipe_log)

\* a validation of the standardized tables has raised after the two
\* standardizers returned, and the run has ended with nothing published
C20_Witness ==
    /\ pipe_pc = "failed"
    /\ pipe_fault = Call("validate_votes_table")
    /\ pipe_log = RetrieveCalls \o StandardizeEntitiesCalls \o StandardizeBallotsCalls
                      \o << Call("validate_from_config") >>
    /\ pipe_uploaded = {}
    /\ pipe_pointers = {}

====
